---- MODULE Spec2Model ----
(***************************************************************************)
(* A model of src/simple_ai_app.py: the web-search-to-structured-data      *)
(* pipeline of HealthcareResearchAgent (search_country_data and the        *)
(* helpers it calls).                                                      *)
(*                                                                         *)
(* Texts are TLA+ strings; TLC evaluates Len, SubSeq and \o on them, so    *)
(* Python's `a in b` on strings is substring search here as well.          *)
(* Scores are in tenths (1.0 -> 10, 0.7 -> 7, 0.5 -> 5, 1.8 -> 18,         *)
(* 2.0 -> 20).                                                             *)
(***************************************************************************)
EXTENDS Integers, Sequences, FiniteSets, TLC

(***************************************************************************)
(* Module-level tables of the program.                                     *)
(***************************************************************************)

\* KEY_STATISTICS, lines 71-88: the searched statistic keywords, in order.
KEY_STATISTICS ==
    << "population",
       "total population",
       "infected population",
       "disease incidence",
       "disease prevalence",
       "demographic distribution",
       "age distribution",
       "sex distribution",
       "gender distribution",
       "geographic distribution",
       "urban population",
       "rural population",
       "mortality rate",
       "life expectancy",
       "healthcare facilities",
       "physician density" >>

\* The taxonomy with only the searched keywords in it.
STATISTICS_CATEGORIES_searched_only ==
    << [name |-> "population_stats",
        keywords |-> << "population", "total population" >>],
       [name |-> "disease_stats",
        keywords |-> << "infected population", "disease incidence",
                        "disease prevalence", "mortality rate" >>],
       [name |-> "demographic_stats",
        keywords |-> << "demographic distribution", "age distribution",
                        "sex distribution", "gender distribution" >>],
       [name |-> "geographic_stats",
        keywords |-> << "geographic distribution", "urban population",
                        "rural population" >>],
       [name |-> "healthcare_stats",
        keywords |-> << "healthcare facilities", "physician density",
                        "life expectancy" >>] >>

\* STATISTICS_CATEGORIES, lines 97-103: an insertion-ordered dict, kept as a
\* sequence of (name, keywords) entries in the order of the literal.
STATISTICS_CATEGORIES ==
    << [name |-> "population_stats",
        keywords |-> << "population", "total population", "population density" >>],
       [name |-> "disease_stats",
        keywords |-> << "infected population", "disease incidence",
                        "disease prevalence", "mortality rate" >>],
       [name |-> "demographic_stats",
        keywords |-> << "demographic distribution", "age distribution",
                        "sex distribution", "gender distribution" >>],
       [name |-> "geographic_stats",
        keywords |-> << "geographic distribution", "urban population",
                        "rural population" >>],
       [name |-> "healthcare_stats",
        keywords |-> << "healthcare facilities", "physician density",
                        "life expectancy" >>] >>

\* DATA_SOURCES, lines 91-94: a dict whose keys are the two engine names.
\* Iterating a dict yields its keys, so as a collection it is these strings.
DATA_SOURCES == << "google", "duckduckgo" >>

Range(s) == { s[i] : i \in DOMAIN s }

CategoryNames == { STATISTICS_CATEGORIES[i].name : i \in DOMAIN STATISTICS_CATEGORIES }

(***************************************************************************)
(* Strings.                                                                *)
(***************************************************************************)

UpperLetters == "ABCDEFGHIJKLMNOPQRSTUVWXYZ"
LowerLetters == "abcdefghijklmnopqrstuvwxyz"

CharAt(s, i) == SubSeq(s, i, i)

\* str.lower() on the ASCII letters; every other character of the modelled
\* alphabet is its own lowercase.
LowerOf ==
    [ c \in { CharAt(UpperLetters, i) : i \in 1..Len(UpperLetters) } |->
        CharAt(LowerLetters, CHOOSE i \in 1..Len(UpperLetters) : CharAt(UpperLetters, i) = c) ]

lower_char(c) == IF c \in DOMAIN LowerOf THEN LowerOf[c] ELSE c

RECURSIVE lower(_)
lower(s) == IF Len(s) = 0 THEN "" ELSE lower_char(Head(s)) \o lower(Tail(s))

\* Python's `sub in text` for strings: substring search; "" is in every text.
Contains(text, sub) ==
    \E i \in 1..(Len(text) - Len(sub) + 1) : SubSeq(text, i, i + Len(sub) - 1) = sub

(***************************************************************************)
(* extract_numerical_data, lines 515-538.                                  *)
(***************************************************************************)

Digits == "0123456789"

DigitOf == [ c \in { CharAt(Digits, i) : i \in 1..Len(Digits) } |->
               (CHOOSE i \in 1..Len(Digits) : CharAt(Digits, i) = c) - 1 ]

IsDigit(c) == c \in DOMAIN DigitOf

DigitValue(c) == DigitOf[c]

\* \s of the pattern, over the modelled alphabet.
IsSpace(c) == c = " "

\* \d+ at position p: the length of the digit run starting there (0: none).
RECURSIVE DigitRun(_, _)
DigitRun(t, p) ==
    IF p <= Len(t) /\ IsDigit(CharAt(t, p)) THEN 1 + DigitRun(t, p + 1) ELSE 0

\* (?:,\d{3})+ at position p: how many ",ddd" groups follow (greedy).
RECURSIVE CommaGroups(_, _)
CommaGroups(t, p) ==
    IF /\ p + 3 <= Len(t)
       /\ CharAt(t, p) = ","
       /\ \A j \in 1..3 : IsDigit(CharAt(t, p + j))
    THEN 1 + CommaGroups(t, p + 4)
    ELSE 0

\* \s* at position p.
RECURSIVE SpaceRun(_, _)
SpaceRun(t, p) ==
    IF p <= Len(t) /\ IsSpace(CharAt(t, p)) THEN 1 + SpaceRun(t, p + 1) ELSE 0

\* The pattern of line 519 tried at position p:
\*   (\d{1,3}(?:,\d{3})+|\d+)(?:\.\d+)?(?:\s*%)?
\* Each operator gives the position after its part of the match, 0 when the
\* pattern does not match at p.  The parts after the group are optional, so
\* the first way the group matches is the one the match keeps.

\* The group of the pattern without its comma-grouped alternative: \d+ only.
group_end_digit_run(t, p, run) == IF run >= 1 THEN p + run ELSE 0

\* (\d{1,3}(?:,\d{3})+|\d+) at p, where `run` digits start.  The first
\* alternative needs a "," right after its 1 to 3 digits, so it can only take
\* the whole run; otherwise the second alternative takes the whole run.
group_end(t, p, run) ==
    IF run \in 1..3 /\ CommaGroups(t, p + run) >= 1
    THEN p + run + 4 * CommaGroups(t, p + run)
    ELSE IF run >= 1 THEN p + run ELSE 0

\* (?:\.\d+)? at e.
fraction_end(t, e) ==
    IF e # 0 /\ e <= Len(t) /\ CharAt(t, e) = "." /\ DigitRun(t, e + 1) >= 1
    THEN e + 1 + DigitRun(t, e + 1)
    ELSE e

\* (?:\s*%)? at e, where `sp` whitespace characters start.
percent_end(t, e, sp) ==
    IF e # 0 /\ e + sp <= Len(t) /\ CharAt(t, e + sp) = "%" THEN e + sp + 1 ELSE e

spaces_then_percent(t, e) == percent_end(t, e, SpaceRun(t, e))

MatchEnd(t, p) == spaces_then_percent(t, fraction_end(t, group_end(t, p, DigitRun(t, p))))

\* str.replace(c, ''), lines 522 and 526.
RECURSIVE remove_char(_, _)
remove_char(s, c) ==
    IF Len(s) = 0 THEN ""
    ELSE (IF Head(s) = c THEN "" ELSE Head(s)) \o remove_char(Tail(s), c)

\* The digits of s read as a decimal natural number ("" is 0).
RECURSIVE digits_value(_)
digits_value(s) ==
    IF Len(s) = 0 THEN 0
    ELSE 10 * digits_value(SubSeq(s, 1, Len(s) - 1)) + DigitValue(CharAt(s, Len(s)))

\* A float is kept as the exact decimal num / 10^exp in lowest form, so that
\* equal floats are equal values (12.50 = 12.5).
RECURSIVE normal_decimal(_, _)
normal_decimal(num, exp) ==
    IF exp > 0 /\ num % 10 = 0 THEN normal_decimal(num \div 10, exp - 1)
    ELSE [num |-> num, exp |-> exp]

\* The first position at or after `from` where sub occurs in s, or 0.
find(s, sub, from) ==
    IF \E i \in from..(Len(s) - Len(sub) + 1) : SubSeq(s, i, i + Len(sub) - 1) = sub
    THEN CHOOSE i \in from..(Len(s) - Len(sub) + 1) :
            /\ SubSeq(s, i, i + Len(sub) - 1) = sub
            /\ \A j \in from..(i - 1) : SubSeq(s, j, j + Len(sub) - 1) # sub
    ELSE 0

\* float(number_str), line 529, for the strings the pattern can produce:
\* digits, an optional "." with digits, surrounding whitespace ignored.
\* `dot` is the place of the "." in body (0: none).
float_at(body, dot) ==
    IF dot = 0 THEN normal_decimal(digits_value(body), 0)
    ELSE normal_decimal(
            digits_value(SubSeq(body, 1, dot - 1) \o SubSeq(body, dot + 1, Len(body))),
            Len(body) - dot)

float_of(body) == float_at(body, find(body, ".", 1))

float(s) == float_of(remove_char(s, " "))

Min2(a, b) == IF a <= b THEN a ELSE b
Max2(a, b) == IF a >= b THEN a ELSE b

\* Lines 524-534: the fact of one match, its commas already removed.
fact_of(number_str, is_percent, context) ==
    [ value      |-> float(IF is_percent THEN remove_char(number_str, "%") ELSE number_str),
      is_percent |-> is_percent,
      context    |-> context ]

percent_fact_of(number_str, context) ==
    fact_of(number_str, Contains(number_str, "%"), context)

\* One NumericFact, lines 520-534, for the match at positions p .. e-1.
numeric_fact(t, p, e) ==
    percent_fact_of(remove_char(SubSeq(t, p, e - 1), ","),
                    SubSeq(t, Max2(1, p - 30), Min2(Len(t), e + 29)))

\* re.finditer from position p on: left to right, non-overlapping.
RECURSIVE numbers_from(_, _)
RECURSIVE numbers_at(_, _, _)
numbers_at(t, p, e) ==
    IF e = 0 THEN numbers_from(t, p + 1)
    ELSE << numeric_fact(t, p, e) >> \o numbers_from(t, e)

numbers_from(t, p) == IF p > Len(t) THEN << >> ELSE numbers_at(t, p, MatchEnd(t, p))

extract_numerical_data(text) == numbers_from(text, 1)

(***************************************************************************)
(* get_synonyms, lines 561-577, and analyze_text_relevance, lines 540-559. *)
(***************************************************************************)

\* The synonyms dict of lines 564-570, in the order of the literal.
Synonyms ==
    << [key |-> "population",
        values |-> << "populace", "inhabitants", "residents", "people", "citizens" >>],
       [key |-> "mortality",
        values |-> << "death rate", "fatality", "deaths", "deceased" >>],
       [key |-> "prevalence",
        values |-> << "occurrence", "frequency", "commonness", "rate" >>],
       [key |-> "incidence",
        values |-> << "rate", "occurrence", "frequency", "cases" >>],
       [key |-> "healthcare",
        values |-> << "health care", "medical care", "health services" >>] >>

\* The values of the first key (in dict order) that occurs in the lowercased
\* term; the empty list when none does.
synonyms_of_lower(term_lower) ==
    IF \E i \in DOMAIN Synonyms : Contains(term_lower, Synonyms[i].key)
    THEN Synonyms[CHOOSE i \in DOMAIN Synonyms :
                     /\ Contains(term_lower, Synonyms[i].key)
                     /\ \A j \in 1..(i - 1) : ~Contains(term_lower, Synonyms[j].key)].values
    ELSE << >>

get_synonyms(term) == synonyms_of_lower(lower(term))

\* Scores in tenths.
ExactScore == 10
SynonymScore == 7
NoScore == 0

\* any(syn in text.lower() for syn in synonyms), line 549.
any_synonym_in(text_lower, synonyms) ==
    \E i \in DOMAIN synonyms : Contains(text_lower, synonyms[i])

\* Lines 546-554 with the synonym test ahead of the exact test.
match_of_synonym_first(text_lower, statistic) ==
    IF any_synonym_in(text_lower, get_synonyms(statistic))
    THEN [relevance |-> TRUE, score |-> SynonymScore]
    ELSE IF Contains(text_lower, lower(statistic))
    THEN [relevance |-> TRUE, score |-> ExactScore]
    ELSE [relevance |-> FALSE, score |-> NoScore]

\* Lines 546-554 on the lowercased text.
match_of(text_lower, statistic) ==
    IF Contains(text_lower, lower(statistic))
    THEN [relevance |-> TRUE, score |-> ExactScore]
    ELSE IF any_synonym_in(text_lower, get_synonyms(statistic))
    THEN [relevance |-> TRUE, score |-> SynonymScore]
    ELSE [relevance |-> FALSE, score |-> NoScore]

\* Lines 557-559.
with_numbers(text, match) ==
    [ relevance |-> match.relevance,
      score     |-> match.score,
      numbers   |-> IF match.relevance THEN extract_numerical_data(text) ELSE << >> ]

analyze_text_relevance(text, statistic) ==
    IF Len(text) = 0 THEN [relevance |-> FALSE, score |-> NoScore, numbers |-> << >>]
    ELSE with_numbers(text, match_of(lower(text), statistic))

(***************************************************************************)
(* The web, as the program sees it.                                        *)
(*                                                                         *)
(* A response to requests.get is [kind |-> "request_exception"] (the call  *)
(* raised requests.RequestException), [kind |-> "exception"] (the call or  *)
(* the parse raised another exception) or                                  *)
(* [kind |-> "http", status, blocks, elements, tables]: the parsed page.   *)
(*   blocks:   the result blocks of a search-engine page                   *)
(*   elements: the texts find_all returns for the text tags, in page order *)
(*   tables:   the <table>s; a table is its <tr>s, a <tr> its cells,       *)
(*             a cell [tag |-> "th" or "td", text]                         *)
(* The program never reads the status of a response.                       *)
(***************************************************************************)

\* str.strip(): leading and trailing whitespace removed.
RECURSIVE lstrip(_)
lstrip(s) == IF Len(s) > 0 /\ IsSpace(Head(s)) THEN lstrip(Tail(s)) ELSE s

RECURSIVE rstrip(_)
rstrip(s) ==
    IF Len(s) > 0 /\ IsSpace(CharAt(s, Len(s))) THEN rstrip(SubSeq(s, 1, Len(s) - 1)) ELSE s

strip(s) == rstrip(lstrip(s))

\* ' '.join(seq)
RECURSIVE join(_)
join(seq) ==
    IF Len(seq) = 0 THEN ""
    ELSE IF Len(seq) = 1 THEN seq[1]
    ELSE seq[1] \o " " \o join(Tail(seq))

\* \w of a pattern: letters, digits and the underscore.
WordChars ==
    DOMAIN LowerOf \cup { LowerOf[c] : c \in DOMAIN LowerOf } \cup DOMAIN DigitOf \cup { "_" }

\* \b20\d{2}\b matching at position i.
year_at(text, i) ==
    /\ i + 3 <= Len(text)
    /\ SubSeq(text, i, i + 1) = "20"
    /\ IsDigit(CharAt(text, i + 2))
    /\ IsDigit(CharAt(text, i + 3))
    /\ i = 1 \/ CharAt(text, i - 1) \notin WordChars
    /\ i + 3 = Len(text) \/ CharAt(text, i + 4) \notin WordChars

\* The year pattern without a match at the very end of the text.
has_temporal_data_before_end(text) == \E i \in 1..(Len(text) - 4) : year_at(text, i)

\* bool(re.search(r'\b20\d{2}\b', text)), lines 610, 638, 785, 888.
has_temporal_data(text) == \E i \in 1..(Len(text) - 3) : year_at(text, i)

\* any(bool(re.search(r'\b20\d{2}\b', ' '.join(row))) for row in rows),
\* lines 679 and 855.
rows_have_temporal_data(rows) == \E k \in DOMAIN rows : has_temporal_data(join(rows[k]))

\* Lines 611-612, 639-640, 889.
ComparisonWords == << "increase", "decrease", "higher", "lower", "compared" >>

words_in(text_lower, words) == \E k \in DOMAIN words : Contains(text_lower, words[k])

has_comparison(text) == words_in(lower(text), ComparisonWords)

\* str.startswith
startswith(s, prefix) == Len(prefix) <= Len(s) /\ SubSeq(s, 1, Len(prefix)) = prefix

\* s.split(sep)[0]: the part before the first sep (all of s when there is none).
before_place(s, i) == IF i = 0 THEN s ELSE SubSeq(s, 1, i - 1)

split_first(s, sep) == before_place(s, find(s, sep, 1))

\* s.split(sep)[1], for an s that holds sep: the part between the first sep
\* and the second (or the end).
after_place(s, sep, i) == SubSeq(s, i + Len(sep), Len(s))

split_second(s, sep) == split_first(after_place(s, sep, find(s, sep, 1)), sep)

\* requests.utils.unquote over the escapes of the modelled alphabet.
RECURSIVE unquote(_)
unquote(s) ==
    IF Len(s) = 0 THEN ""
    ELSE IF startswith(s, "%3A") THEN ":" \o unquote(SubSeq(s, 4, Len(s)))
    ELSE IF startswith(s, "%2F") THEN "/" \o unquote(SubSeq(s, 4, Len(s)))
    ELSE Head(s) \o unquote(Tail(s))

\* re.search(r'uddg=([^&]+)', link).group(1), or "" when there is no match
\* (a match is never empty: [^&]+ takes at least one character).
RECURSIVE until_amp(_)
until_amp(s) ==
    IF Len(s) = 0 \/ Head(s) = "&" THEN "" ELSE Head(s) \o until_amp(Tail(s))

\* The first place where "uddg=" is followed by a character other than "&".
uddg_at(link) ==
    IF \E i \in 1..(Len(link) - 5) :
          SubSeq(link, i, i + 4) = "uddg=" /\ CharAt(link, i + 5) # "&"
    THEN CHOOSE i \in 1..(Len(link) - 5) :
            /\ SubSeq(link, i, i + 4) = "uddg=" /\ CharAt(link, i + 5) # "&"
            /\ \A j \in 1..(i - 1) :
                  ~(SubSeq(link, j, j + 4) = "uddg=" /\ CharAt(link, j + 5) # "&")
    ELSE 0

uddg_from(link, i) == IF i = 0 THEN "" ELSE until_amp(SubSeq(link, i + 5, Len(link)))

uddg_group(link) == uddg_from(link, uddg_at(link))

(***************************************************************************)
(* search_web, lines 427-513.  A result block of a search page is          *)
(*   [has_title, title, has_anchor, has_href, href, has_snippet, snippet]  *)
(* has_title: Google's h3 / DuckDuckGo's a.result__a is there;             *)
(* has_anchor, has_href: the anchor read for the link and its href         *)
(* attribute (for DuckDuckGo the anchor is the title element).             *)
(***************************************************************************)

\* Lines 461-467 and 499-505.
search_result(title, link, snippet, source) ==
    IF Len(title) > 0 /\ Len(link) > 0
    THEN << [title |-> title, url |-> link, snippet |-> snippet, source |-> source] >>
    ELSE << >>

\* Lines 454-455.
google_link(link) ==
    IF startswith(link, "/url?q=")
    THEN split_first(split_second(link, "/url?q="), "&sa=")
    ELSE link

google_block(b) ==
    IF ~b.has_title THEN << >>                                   \* line 446
    ELSE IF b.has_anchor /\ ~b.has_href THEN << >>               \* KeyError, line 468
    ELSE search_result(b.title,
                       google_link(IF b.has_anchor THEN b.href ELSE ""),
                       IF b.has_snippet THEN b.snippet ELSE "",
                       "Google")

\* Lines 490-493.
duckduckgo_unwrap(link, group) ==
    IF startswith(link, "/") /\ Len(group) > 0 THEN unquote(group) ELSE link

duckduckgo_link(link) == duckduckgo_unwrap(link, uddg_group(link))

duckduckgo_block(b) ==
    IF ~b.has_title THEN << >>                                   \* line 483
    ELSE IF ~b.has_href THEN << >>                               \* KeyError, line 506
    ELSE search_result(b.title,
                       duckduckgo_link(b.href),
                       IF b.has_snippet THEN b.snippet ELSE "",
                       "DuckDuckGo")

\* The loop of lines 443-469 without the handler of lines 468-469: the first
\* block that gives no result ends the loop.
RECURSIVE google_blocks_stop_at_bad(_)
google_blocks_stop_at_bad(blocks) ==
    IF Len(blocks) = 0 THEN << >>
    ELSE IF google_block(Head(blocks)) = << >> THEN << >>
    ELSE google_block(Head(blocks)) \o google_blocks_stop_at_bad(Tail(blocks))

RECURSIVE google_blocks(_)
google_blocks(blocks) ==
    IF Len(blocks) = 0 THEN << >>
    ELSE google_block(Head(blocks)) \o google_blocks(Tail(blocks))

RECURSIVE duckduckgo_blocks(_)
duckduckgo_blocks(blocks) ==
    IF Len(blocks) = 0 THEN << >>
    ELSE duckduckgo_block(Head(blocks)) \o duckduckgo_blocks(Tail(blocks))

\* search_web(query, engine) when the engine's page comes back as `response`.
search_web(engine, response) ==
    IF lower(engine) \notin {"google", "duckduckgo"} THEN << >>
    ELSE IF response.kind # "http" THEN << >>                    \* line 511
    ELSE IF lower(engine) = "google" THEN google_blocks(response.blocks)
    ELSE duckduckgo_blocks(response.blocks)

\* The exception propagates to the caller instead of being handled.
search_web_raise(exception) == [kind |-> "raised", exception |-> exception]

\* Lines 511-513: the handler around the whole body returns [].
search_web_except(exception) == [kind |-> "returned", results |-> << >>]

\* What a call of search_web gives its caller: the list of line 509, or what
\* the handler of lines 511-513 makes of a failed fetch or parse.
search_web_outcome(engine, response) ==
    IF lower(engine) \in {"google", "duckduckgo"} /\ response.kind # "http"
    THEN search_web_except(response.kind)
    ELSE [kind |-> "returned", results |-> search_web(engine, response)]

(***************************************************************************)
(* extract_data_from_search_results, lines 579-694.                        *)
(***************************************************************************)

\* Scores in tenths: the country bonus of line 602, the page-body score of
\* line 637, the result-table score of line 678.
CountryBonus == 5
PageScore == 20
ResultTableScore == 20

\* table.find_all('th') / first_row.find_all('td'): the stripped texts of the
\* cells with that tag, in document order.
RECURSIVE cells_with_tag(_, _)
cells_with_tag(row, tag) ==
    IF Len(row) = 0 THEN << >>
    ELSE (IF Head(row).tag = tag THEN << strip(Head(row).text) >> ELSE << >>)
         \o cells_with_tag(Tail(row), tag)

RECURSIVE table_ths(_)
table_ths(table) ==
    IF Len(table) = 0 THEN << >>
    ELSE cells_with_tag(Head(table), "th") \o table_ths(Tail(table))

\* [td.text.strip() for td in tr.find_all(['td', 'th'])]
RECURSIVE row_texts(_)
row_texts(row) ==
    IF Len(row) = 0 THEN << >> ELSE << strip(Head(row).text) >> \o row_texts(Tail(row))

\* The rows loop of lines 665-670 and 828-833: the non-empty rows.
RECURSIVE rows_of(_)
rows_of(trs) ==
    IF Len(trs) = 0 THEN << >>
    ELSE (IF Len(Head(trs)) > 0 THEN << row_texts(Head(trs)) >> ELSE << >>)
         \o rows_of(Tail(trs))

\* Lines 647-655: the th cells, else the td cells of the first row.
headers_or_first_row(table, ths) ==
    IF Len(ths) = 0 /\ Len(table) > 0 THEN cells_with_tag(table[1], "td") ELSE ths

result_table_headers(table) == headers_or_first_row(table, table_ths(table))

\* [cell for row in rows for cell in row if self.extract_numerical_data(cell)]
RECURSIVE numeric_cells(_)
numeric_cells(row) ==
    IF Len(row) = 0 THEN << >>
    ELSE (IF Len(extract_numerical_data(Head(row))) > 0 THEN << Head(row) >> ELSE << >>)
         \o numeric_cells(Tail(row))

RECURSIVE numeric_cells_of_rows(_)
numeric_cells_of_rows(rows) ==
    IF Len(rows) = 0 THEN << >>
    ELSE numeric_cells(Head(rows)) \o numeric_cells_of_rows(Tail(rows))

\* Lines 657-685 without the test of the header text at line 662.
result_table_data_point_any_headers(headers, header_text, rows, result, statistic, country) ==
    IF Len(headers) = 0 \/ Len(rows) = 0 THEN << >>
    ELSE << [ text            |-> "Table data for " \o statistic \o " from " \o result.title,
              numbers         |-> numeric_cells_of_rows(rows),
              source          |-> "Web Table: " \o result.title,
              url             |-> result.url,
              relevance_score |-> ResultTableScore,
              has_temporal_data |-> rows_have_temporal_data(rows),
              has_comparison  |-> FALSE,
              is_table        |-> TRUE,
              table_headers   |-> headers,
              table_rows      |-> rows ] >>

\* Lines 657-685, for the headers and rows read from one table.
result_table_data_point(headers, header_text, rows, result, statistic, country) ==
    IF Len(headers) = 0 THEN << >>                                       \* line 657
    ELSE IF ~(Contains(header_text, lower(statistic)) \/ Contains(header_text, lower(country)))
    THEN << >>                                                           \* line 662
    ELSE IF Len(rows) = 0 THEN << >>                                     \* line 672
    ELSE << [ text            |-> "Table data for " \o statistic \o " from " \o result.title,
              numbers         |-> numeric_cells_of_rows(rows),
              source          |-> "Web Table: " \o result.title,
              url             |-> result.url,
              relevance_score |-> ResultTableScore,
              has_temporal_data |-> rows_have_temporal_data(rows),
              has_comparison  |-> FALSE,
              is_table        |-> TRUE,
              table_headers   |-> headers,
              table_rows      |-> rows ] >>

result_table_with_headers(headers, table, result, statistic, country) ==
    result_table_data_point(headers, lower(join(headers)),
                            rows_of(Tail(table)),        \* find_all('tr')[1:], line 665
                            result, statistic, country)

\* Lines 646-685, one table of a deep-fetched result page.
result_table_point(table, result, statistic, country) ==
    result_table_with_headers(result_table_headers(table), table, result, statistic, country)

RECURSIVE result_table_points(_, _, _, _)
result_table_points(tables, result, statistic, country) ==
    IF Len(tables) = 0 THEN << >>
    ELSE result_table_point(Head(tables), result, statistic, country)
         \o result_table_points(Tail(tables), result, statistic, country)

\* Lines 631-642.
page_data_point(element_text, element_numbers, result) ==
    IF Len(element_numbers) > 0
    THEN << [ text            |-> element_text,
              numbers         |-> element_numbers,
              source          |-> "Web Page: " \o result.title,
              url             |-> result.url,
              relevance_score |-> PageScore,
              has_temporal_data |-> has_temporal_data(element_text),
              has_comparison  |-> has_comparison(element_text),
              is_table        |-> FALSE ] >>
    ELSE << >>

\* Lines 626-642, one element.
page_element_point(element_text, element_lower, result, statistic, country) ==
    IF Contains(element_lower, lower(statistic)) /\ Contains(element_lower, lower(country))
    THEN page_data_point(element_text, extract_numerical_data(element_text), result)
    ELSE << >>

page_element(element_text, result, statistic, country) ==
    page_element_point(element_text, lower(element_text), result, statistic, country)

\* Lines 625-642, the text elements of a deep-fetched result page.
RECURSIVE result_page_points(_, _, _, _)
result_page_points(elements, result, statistic, country) ==
    IF Len(elements) = 0 THEN << >>
    ELSE page_element(strip(Head(elements)), result, statistic, country)
         \o result_page_points(Tail(elements), result, statistic, country)

\* Lines 594-615 with the country bonus given to every result.
snippet_data_point_always_bonus(result, combined_text, base, t_numbers, n_numbers, country) ==
    [ text            |-> combined_text,
      numbers         |-> t_numbers \o n_numbers,
      source          |-> result.source,
      url             |-> result.url,
      relevance_score |-> base + CountryBonus,
      has_temporal_data |-> has_temporal_data(combined_text),
      has_comparison  |-> has_comparison(combined_text),
      is_table        |-> FALSE ]

\* Lines 594-615: the DataPoint of a search result's title and snippet.
snippet_data_point(result, combined_text, base, t_numbers, n_numbers, country) ==
    [ text            |-> combined_text,
      numbers         |-> t_numbers \o n_numbers,
      source          |-> result.source,
      url             |-> result.url,
      relevance_score |-> IF Contains(lower(combined_text), lower(country))
                          THEN base + CountryBonus ELSE base,
      has_temporal_data |-> has_temporal_data(combined_text),
      has_comparison  |-> has_comparison(combined_text),
      is_table        |-> FALSE ]

\* Lines 618-685: the deep fetch of the result's url, answered by `page`.
deep_fetch_points(result, statistic, country, page) ==
    IF Len(result.url) = 0 \/ page.kind # "http" THEN << >>
    ELSE result_page_points(page.elements, result, statistic, country)
         \o result_table_points(page.tables, result, statistic, country)

\* Lines 593-685 with the title score and the snippet score added up.
scored_result_points_summed(result, statistic, country, page, t, n) ==
    IF ~(t.relevance \/ n.relevance) THEN << >>
    ELSE << snippet_data_point(result,
                               result.title \o " - " \o result.snippet,
                               t.score + n.score,
                               t.numbers, n.numbers, country) >>
         \o deep_fetch_points(result, statistic, country, page)

\* Lines 593-685, t and n being the relevance of the title and the snippet.
scored_result_points(result, statistic, country, page, t, n) ==
    IF ~(t.relevance \/ n.relevance) THEN << >>
    ELSE << snippet_data_point(result,
                               result.title \o " - " \o result.snippet,
                               Max2(t.score, n.score),
                               t.numbers, n.numbers, country) >>
         \o deep_fetch_points(result, statistic, country, page)

\* Lines 587-692, one search result; `page` is the response to the fetch of
\* the result's url (line 621).
result_points(result, statistic, country, page) ==
    scored_result_points(result, statistic, country, page,
                         analyze_text_relevance(result.title, statistic),
                         analyze_text_relevance(result.snippet, statistic))

\* `pages[i]` is the response to the fetch for results[i].
RECURSIVE extract_data_from_search_results(_, _, _, _)
extract_data_from_search_results(results, statistic, country, pages) ==
    IF Len(results) = 0 THEN << >>
    ELSE result_points(Head(results), statistic, country, Head(pages))
         \o extract_data_from_search_results(Tail(results), statistic, country, Tail(pages))

(***************************************************************************)
(* The agent.  __init__ (lines 374-378) sets statistics, data_sources and  *)
(* categories; search_country_data also reads self.stat_to_category, which *)
(* __init__ does not set, and reads each element of self.data_sources as a *)
(* record with name, url_template and data_paths, while __init__ sets      *)
(* data_sources to DATA_SOURCES, whose elements are strings.               *)
(*                                                                         *)
(* An agent is [has_stat_to_category, sources]:                            *)
(*   has_stat_to_category  the attribute stat_to_category is set (to the   *)
(*                         statistic -> category table)                    *)
(*   sources               "DATA_SOURCES" (as __init__ leaves it) or       *)
(*                         "SOURCE_RECORDS" (the list of named sources)    *)
(***************************************************************************)

ConstructedAgent == [has_stat_to_category |-> FALSE, sources |-> "DATA_SOURCES"]

\* The statistic -> category table: the category whose keyword list holds
\* the statistic.
stat_to_category ==
    [ st \in UNION { Range(STATISTICS_CATEGORIES[i].keywords) : i \in DOMAIN STATISTICS_CATEGORIES }
        |-> STATISTICS_CATEGORIES[
              CHOOSE i \in DOMAIN STATISTICS_CATEGORIES :
                 st \in Range(STATISTICS_CATEGORIES[i].keywords)].name ]

\* self.stat_to_category.get(statistic, 'population_stats'), lines 724, 845, 879.
category_of(statistic) ==
    IF statistic \in DOMAIN stat_to_category THEN stat_to_category[statistic]
    ELSE "population_stats"

\* The named external data sources.  url_template holds the text before
\* "{country}", which ends the template.
SOURCE_RECORDS ==
    << [name |-> "World Population Review",
        url_template |-> "https://worldpopulationreview.example/countries/",
        data_paths |-> << >>],
       [name |-> "WHO",
        url_template |-> "https://who.example/countries/",
        data_paths |-> << "data" >>] >>

AgentConfigs ==
    { [has_stat_to_category |-> h, sources |-> k] :
        h \in BOOLEAN, k \in {"DATA_SOURCES", "SOURCE_RECORDS"} }

\* str.replace(' ', '-')
RECURSIVE replace_space(_)
replace_space(s) ==
    IF Len(s) = 0 THEN ""
    ELSE (IF Head(s) = " " THEN "-" ELSE Head(s)) \o replace_space(Tail(s))

\* Line 705.
country_code_of(country) == replace_space(lower(country))

\* source['url_template'].format(country=country_code), lines 756 and 804.
format_url(url_template, country_code) == url_template \o country_code

(***************************************************************************)
(* The nested findings, country_data['data']: category -> statistic ->     *)
(* DataPoints.  Each inner dict is insertion-ordered, so it is kept as the *)
(* sequence of its [statistic, points] entries in insertion order.         *)
(***************************************************************************)

\* Line 702.
empty_data == [ c \in CategoryNames |-> << >> ]

\* if statistic not in data[category]: data[category][statistic] = []
\* data[category][statistic].extend(points)
add_points(data, category, statistic, points) ==
    IF \E k \in DOMAIN data[category] : data[category][k].statistic = statistic
    THEN [data EXCEPT ![category] =
            [ k \in DOMAIN @ |->
                IF @[k].statistic = statistic
                THEN [@[k] EXCEPT !.points = @ \o points]
                ELSE @[k] ]]
    ELSE [data EXCEPT ![category] =
            Append(@, [statistic |-> statistic, points |-> points])]

\* Every DataPoint of the findings, with its category, statistic and place.
points_in(data) ==
    UNION { UNION { { [ category  |-> c,
                        statistic |-> data[c][k].statistic,
                        index     |-> j,
                        point     |-> data[c][k].points[j] ] :
                      j \in DOMAIN data[c][k].points } :
                    k \in DOMAIN data[c] } :
            c \in CategoryNames }

(***************************************************************************)
(* SEARCH_PRIMARY_SOURCES, lines 752-797.                                  *)
(***************************************************************************)

PrimaryScore == 20

\* Line 771.
PrimaryStatistics == << "population", "population density", "total population" >>

\* Line 753: the sources whose name holds 'Population'.
RECURSIVE population_sources_of(_)
population_sources_of(sources) ==
    IF Len(sources) = 0 THEN << >>
    ELSE (IF Contains(Head(sources).name, "Population") THEN << Head(sources) >> ELSE << >>)
         \o population_sources_of(Tail(sources))

\* Lines 774-790: the DataPoint of one statistic found in one element.
primary_data_point(st, text, numbers, statistic, source, base_url) ==
    IF Len(numbers) > 0
    THEN [ data  |-> add_points(st.data, "population_stats", statistic,
                       << [ text            |-> text,
                            numbers         |-> numbers,
                            source          |-> source.name,
                            url             |-> base_url,
                            relevance_score |-> PrimaryScore,
                            has_temporal_data |-> has_temporal_data(text),
                            has_comparison  |-> FALSE,
                            is_table        |-> FALSE ] >>),
           found |-> st.found \cup {statistic} ]
    ELSE st

\* Lines 772-790 for one statistic and one element text; st is [data, found].
primary_statistic(st, text, statistic, source, base_url) ==
    IF Contains(lower(text), statistic)
    THEN primary_data_point(st, text, extract_numerical_data(text), statistic,
                            source, base_url)
    ELSE st

\* Lines 771-790 for one element text.
RECURSIVE primary_element(_, _, _, _, _)
primary_element(st, text, statistics, source, base_url) ==
    IF Len(statistics) = 0 THEN st
    ELSE primary_element(primary_statistic(st, text, Head(statistics), source, base_url),
                         text, Tail(statistics), source, base_url)

\* Lines 767-790: every element of the page.
RECURSIVE primary_page(_, _, _, _)
primary_page(st, elements, source, base_url) ==
    IF Len(elements) = 0 THEN st
    ELSE primary_page(
            primary_element(st, strip(Head(elements)), PrimaryStatistics, source, base_url),
            Tail(elements), source, base_url)

(***************************************************************************)
(* SEARCH_SECONDARY_SOURCES, lines 802-903.                                *)
(***************************************************************************)

SourceTableScore == 18

\* Lines 842-846: the first statistic (in the order of self.statistics) that
\* occurs in the header text, or "" when none does.
best_statistic_of(header_text, statistics) ==
    IF \E k \in DOMAIN statistics : Contains(header_text, statistics[k])
    THEN statistics[CHOOSE k \in DOMAIN statistics :
                       /\ Contains(header_text, statistics[k])
                       /\ \A j \in 1..(k - 1) : ~Contains(header_text, statistics[j])]
    ELSE ""

\* [row[1] if len(row) > 1 else '' for row in rows if len(row) > 1]
RECURSIVE second_cells(_)
second_cells(rows) ==
    IF Len(rows) = 0 THEN << >>
    ELSE (IF Len(Head(rows)) > 1 THEN << Head(rows)[2] >> ELSE << >>)
         \o second_cells(Tail(rows))

\* Lines 848-864: found_statistics is neither read nor written here.
source_table_data_point(data, headers, rows, best_statistic, source, url) ==
    IF best_statistic = "" THEN data
    ELSE add_points(data, category_of(best_statistic), best_statistic,
            << [ text            |-> "Table data for " \o best_statistic,
                 numbers         |-> second_cells(rows),
                 source          |-> source.name,
                 url             |-> url,
                 relevance_score |-> SourceTableScore,
                 has_temporal_data |-> rows_have_temporal_data(rows),
                 has_comparison  |-> FALSE,
                 is_table        |-> TRUE,
                 table_headers   |-> headers,
                 table_rows      |-> rows ] >>)

\* Lines 824-864, for the headers and rows read from one table.
source_table_with(data, headers, rows, source, url) ==
    IF Len(headers) = 0 \/ Len(rows) = 0 THEN data                  \* lines 824, 835
    ELSE source_table_data_point(data, headers, rows,
                                 best_statistic_of(lower(join(headers)), KEY_STATISTICS),
                                 source, url)

\* Lines 818-864 for one table: the findings after it.
source_table(data, table, source, url) ==
    source_table_with(data, table_ths(table), rows_of(table), source, url)

RECURSIVE source_tables(_, _, _, _)
source_tables(data, tables, source, url) ==
    IF Len(tables) = 0 THEN data
    ELSE source_tables(source_table(data, Head(tables), source, url),
                       Tail(tables), source, url)

\* Lines 877-895, r being the relevance of the text for the statistic.
source_data_point(st, text, statistic, r, source, url) ==
    IF r.relevance /\ r.score > ExactScore                          \* line 877
    THEN [ data  |-> add_points(st.data, category_of(statistic), statistic,
                       << [ text            |-> text,
                            numbers         |-> r.numbers,
                            source          |-> source.name,
                            url             |-> url,
                            relevance_score |-> r.score,
                            has_temporal_data |-> has_temporal_data(text),
                            has_comparison  |-> has_comparison(text),
                            is_table        |-> FALSE ] >>),
           found |-> st.found \cup {statistic} ]
    ELSE st

\* Lines 872-895 for one statistic and one element text; st is [data, found].
source_statistic(st, text, statistic, source, url) ==
    IF statistic \in st.found THEN st                               \* line 872
    ELSE source_data_point(st, text, statistic,
                           analyze_text_relevance(text, statistic), source, url)

\* Lines 871-895 for one element text.
RECURSIVE source_element(_, _, _, _, _)
source_element(st, text, statistics, source, url) ==
    IF Len(statistics) = 0 THEN st
    ELSE source_element(source_statistic(st, text, Head(statistics), source, url),
                        text, Tail(statistics), source, url)

RECURSIVE source_elements(_, _, _, _)
source_elements(st, elements, source, url) ==
    IF Len(elements) = 0 THEN st
    ELSE source_elements(
            source_element(st, strip(Head(elements)), KEY_STATISTICS, source, url),
            Tail(elements), source, url)

\* Lines 813-895: one fetched page of a source; st is [data, found].
source_page(st, page, source, url) ==
    source_elements([st EXCEPT !.data = source_tables(st.data, page.tables, source, url)],
                    page.elements, source, url)

\* Line 805.
urls_from(base_url, data_paths) ==
    << base_url >> \o [ k \in DOMAIN data_paths |-> base_url \o "/" \o data_paths[k] ]

urls_to_search(source, country_code) ==
    urls_from(format_url(source.url_template, country_code), source.data_paths)

(***************************************************************************)
(* SUMMARIZE: the flatten step, lines 905-934, and create_country_summary, *)
(* lines 944-971.  An optional value (None or a value) is a sequence of    *)
(* length 0 or 1.                                                          *)
(***************************************************************************)

\* Lines 911-934: the StructuredEntry of one DataPoint.
table_fields(entry, data_point) ==
    IF data_point.is_table                                          \* line 930
    THEN entry @@ [ table_headers |-> data_point.table_headers,
                    table_rows    |-> data_point.table_rows ]
    ELSE entry

structured_entry(country, category, statistic, data_point) ==
    table_fields(
        [ country          |-> country,
          category         |-> category,
          indicator        |-> statistic,
          description      |-> data_point.text,
          numerical_values |-> data_point.numbers,
          primary_value    |-> IF Len(data_point.numbers) > 0
                               THEN << data_point.numbers[1] >> ELSE << >>,
          source           |-> data_point.source,
          url              |-> data_point.url,
          relevance_score  |-> data_point.relevance_score,
          has_temporal_data |-> data_point.has_temporal_data,
          has_comparison   |-> data_point.has_comparison,
          is_data_resource |-> FALSE,
          resource_type    |-> "",
          is_table         |-> data_point.is_table ],
        data_point)

\* Line 910: the DataPoints of one statistic.
flatten_points(country, category, statistic, points) ==
    [ j \in DOMAIN points |-> structured_entry(country, category, statistic, points[j]) ]

\* Line 909: the statistics of one category, in insertion order.
RECURSIVE flatten_statistics(_, _, _)
flatten_statistics(country, category, entries) ==
    IF Len(entries) = 0 THEN << >>
    ELSE flatten_points(country, category, Head(entries).statistic, Head(entries).points)
         \o flatten_statistics(country, category, Tail(entries))

\* Line 908: the categories, in the order of STATISTICS_CATEGORIES.
RECURSIVE flatten_categories(_, _, _)
flatten_categories(country, data, categories) ==
    IF Len(categories) = 0 THEN << >>
    ELSE flatten_statistics(country, Head(categories).name, data[Head(categories).name])
         \o flatten_categories(country, data, Tail(categories))

flatten(country, data) == flatten_categories(country, data, STATISTICS_CATEGORIES)

\* A flatten step that empties the nested findings as it reads them.
flatten_step_draining(country, data) ==
    [structured_data |-> flatten(country, data), data |-> empty_data]

\* Lines 905-934 as a step: the sequence built, and the nested findings as
\* the loops leave them (they only read country_data['data']).
flatten_step(country, data) ==
    [structured_data |-> flatten(country, data), data |-> data]

\* Line 968: the threshold of a key finding, in tenths, and line 969: how
\* many are kept.
HighRelevanceScore == 15
KeyFindingsLimit == 5

\* df[df['relevance_score'] > 1.5]: the places of the rows kept, line 968.
high_relevance_data(structured_data) ==
    { k \in DOMAIN structured_data :
         structured_data[k].relevance_score > HighRelevanceScore }

\* sort_values('relevance_score', ascending=False), line 968: the orders the
\* sort can give the rows at the places S.  The default kind is quicksort,
\* which promises no order among rows of equal score: every order of the
\* ties is an outcome.
RECURSIVE sort_values_descending(_, _)
sort_values_descending(structured_data, S) ==
    IF S = {} THEN { << >> }
    ELSE UNION { { << k >> \o rest :
                     rest \in sort_values_descending(structured_data, S \ {k}) } :
                 k \in { j \in S : \A i \in S :
                            structured_data[i].relevance_score
                               <= structured_data[j].relevance_score } }

\* [['category', 'indicator', 'description']].to_dict('records'), line 969.
finding_record(entry) ==
    [category |-> entry.category, indicator |-> entry.indicator,
     description |-> entry.description]

\* Line 969: the records of the sorted rows, cut at five.
key_findings(structured_data, order) ==
    [ i \in 1..(IF Len(order) < KeyFindingsLimit THEN Len(order) ELSE KeyFindingsLimit) |->
        finding_record(structured_data[order[i]]) ]

\* (count / len(df)) * 100 as the exact fraction num/den.
percentage(count, total) == [num |-> count * 100, den |-> total]

\* Lines 950-954 for an empty dataset, lines 961-965 otherwise.
data_quality(structured_data) ==
    IF Len(structured_data) = 0
    THEN [temporal_data_percentage   |-> percentage(0, 1),
          comparison_data_percentage |-> percentage(0, 1),
          numerical_data_percentage  |-> percentage(0, 1)]
    ELSE [temporal_data_percentage   |->
             percentage(Cardinality({ k \in DOMAIN structured_data :
                                        structured_data[k].has_temporal_data }),
                        Len(structured_data)),
          comparison_data_percentage |->
             percentage(Cardinality({ k \in DOMAIN structured_data :
                                        structured_data[k].has_comparison }),
                        Len(structured_data)),
          numerical_data_percentage  |->
             percentage(Cardinality({ k \in DOMAIN structured_data :
                                        Len(structured_data[k].numerical_values) > 0 }),
                        Len(structured_data))]

\* Lines 946-971 with the coverage marking the categories that occur, not
\* counting their rows.
country_summary_presence(structured_data, order) ==
    LET present == { structured_data[k].category : k \in DOMAIN structured_data }
    IN  [ total_indicators_found |-> Len(structured_data),
          categories_coverage    |-> [ c \in present |-> 1 ],
          key_findings           |-> key_findings(structured_data, order),
          data_quality           |-> data_quality(structured_data) ]

\* Lines 946-971 once the sort has put the high-relevance rows in `order`.
country_summary(structured_data, order) ==
    LET present == { structured_data[k].category : k \in DOMAIN structured_data }
    IN  [ total_indicators_found |-> Len(structured_data),
          categories_coverage    |->
             [ c \in present |->
                 Cardinality({ k \in DOMAIN structured_data : structured_data[k].category = c }) ],
          key_findings           |-> key_findings(structured_data, order),
          data_quality           |-> data_quality(structured_data) ]

\* Lines 944-971: the summaries the call can return, one for each outcome of
\* the sort.
create_country_summary(structured_data) ==
    { country_summary(structured_data, order) :
        order \in sort_values_descending(structured_data,
                                         high_relevance_data(structured_data)) }

(***************************************************************************)
(* What the web can answer during a run.  MaxHits bounds the number of     *)
(* steps of one run whose fetches bring back a page with content.          *)
(***************************************************************************)

MaxHits == 2

Countries == { "France", "New Zealand" }

Engines == << "google", "duckduckgo" >>

Failure == [kind |-> "exception"]
RequestFailure == [kind |-> "request_exception"]

Page(status, blocks, elements, tables) ==
    [kind |-> "http", status |-> status, blocks |-> blocks,
     elements |-> elements, tables |-> tables]

EmptyPage == Page(200, << >>, << >>, << >>)

HasContent(response) ==
    /\ response.kind = "http"
    /\ Len(response.blocks) + Len(response.elements) + Len(response.tables) > 0

Block(title, href, snippet) ==
    [has_title |-> TRUE, title |-> title, has_anchor |-> TRUE, has_href |-> TRUE,
     href |-> href, has_snippet |-> TRUE, snippet |-> snippet]

\* A result block without its title element.
UntitledBlock == [Block("", "https://stats.example/x", "") EXCEPT !.has_title = FALSE]

TwoRowTable(h1, h2, c1, c2) ==
    << << [tag |-> "th", text |-> h1], [tag |-> "th", text |-> h2] >>,
       << [tag |-> "td", text |-> c1], [tag |-> "td", text |-> c2] >> >>

\* A table without <th>: its first <tr> holds the header texts in <td> cells.
BorrowedHeaderTable(h1, h2, c1, c2) ==
    << << [tag |-> "td", text |-> h1], [tag |-> "td", text |-> h2] >>,
       << [tag |-> "td", text |-> c1], [tag |-> "td", text |-> c2] >> >>

\* A table whose only <tr> has no cell: no headers can be read from it.
HeaderlessTable == << << >> >>

\* The statistics the search engines have result blocks for.
WebStatistics == { "population", "disease incidence", "life expectancy" }

\* The search-engine pages for the query "<country> <statistic> statistics data".
SearchResponses(statistic, country) ==
    { Failure, EmptyPage }
    \cup
    IF statistic \in WebStatistics
    THEN { Page(200, << UntitledBlock >>, << >>, << >>),
           Page(200, << Block("Weather today", "https://stats.example/w",
                              "Sunny, 21 degrees") >>,
                << >>, << >>),
           Page(200, << Block(country \o " " \o statistic, "https://stats.example/page",
                              country \o " " \o statistic \o ": 67,000,000 in 2023") >>,
                << >>, << >>) }
    ELSE { }

\* The pages behind a search result's url.
ResultResponses(statistic, country) ==
    { Failure,
      Page(404, << >>, << "No " \o statistic \o " page for " \o country \o " (error 404)" >>,
           << >>),
      Page(200, << >>, << " " \o statistic \o " of " \o country \o " was 67,000,000 in 2023 " >>,
           << >>),
      Page(200, << >>, << >>,
           << TwoRowTable("Color", "Size", "red", "9"),
              HeaderlessTable,
              BorrowedHeaderTable("Year", statistic, "2023", "67,000,000"),
              TwoRowTable("Region", country \o " total", "North", "1,200") >>) }

\* The pages of the population sources.
PrimaryResponses ==
    { RequestFailure,
      Failure,
      Page(200, << >>, << "No figures published" >>, << >>),
      Page(404, << >>, << "Population page not found (error 404)" >>, << >>),
      Page(200, << >>, << "Population (2023): 67,000,000" >>, << >>),
      Page(200, << >>, << "Total population 67,000,000", "Population density: 119" >>, << >>) }

\* The pages of the data sources.
SecondaryResponses ==
    { RequestFailure,
      Failure,
      Page(200, << >>, << "No figures published" >>, << >>),
      Page(500, << >>, << "Mortality rate service failed (error 500)" >>, << >>),
      Page(200, << >>, << "Life expectancy: 82 years", "Mortality rate 5%" >>, << >>),
      Page(200, << >>, << >>,
           << TwoRowTable("Color", "Size", "red", "9"),
              BorrowedHeaderTable("Year", "Mortality rate", "2023", "5%"),
              TwoRowTable("Year", "Population", "2023", "67,000,000") >>),
      Page(200, << >>, << "Life Expectancy at birth: 82" >>,
           << TwoRowTable("Year", "Life expectancy", "2023", "82") >>) }

(***************************************************************************)
(* One run of search_country_data(country), lines 696-942.                 *)
(***************************************************************************)

VARIABLES
    pc,                 \* the phase of the run
    agent,              \* the attributes of self the run reads
    country,            \* the argument
    country_data,       \* country_data['data'], the nested findings
    found_statistics,   \* line 708
    current_engine,     \* line 715
    stat_i,             \* the place of the statistics loop, line 718
    source_i,           \* the place of the source loops, lines 754 and 802
    url_i,              \* the place of the url loop, line 807
    result,             \* what the call gave its caller
    log,                \* the fetches and computations of the run, in order
    fetched,            \* the last fetch of a loop step: [op, response], and for
                        \* a search the page behind the results' urls
    hits,               \* steps so far whose fetch brought back content
    call                \* a call of one of the helpers on its own: [fn, args.., ret]

run_vars == << pc, agent, country, country_data, found_statistics, current_engine,
               stat_i, source_i, url_i, result, log, fetched, hits >>

vars == << run_vars, call >>

NoResult == [kind |-> "none"]
NoFetch == [op |-> "none"]
NoCall == [fn |-> "none"]

\* A handler that lets the exception through to the caller.
search_country_data_reraise(exception) ==
    [kind |-> "raised", message |-> exception]

\* Lines 941-942: the handler around the whole body.
search_country_data_except(exception) ==
    [kind |-> "error", message |-> "Error during research: " \o exception]

\* Line 939.
search_country_data_return(structured_data, summary) ==
    [kind |-> "pair", dataset |-> structured_data, summary |-> summary]

\* An exception that no inner handler catches ends the run in the handler of
\* lines 941-942.
Abort(exception) ==
    /\ pc' = "DONE"
    /\ result' = search_country_data_except(exception)
    /\ UNCHANGED << agent, country, country_data, found_statistics, current_engine,
                    stat_i, source_i, url_i, log, fetched, hits, call >>

\* Line 727 without the flip.
next_engine_kept(engine) == engine

\* Line 727.
next_engine(engine) == IF engine = "duckduckgo" THEN "google" ELSE "duckduckgo"

RunInit ==
    /\ pc = "INIT"
    /\ country_data = empty_data
    /\ found_statistics = {}
    /\ current_engine = "google"
    /\ stat_i = 1
    /\ source_i = 1
    /\ url_i = 1
    /\ result = NoResult
    /\ log = << >>
    /\ fetched = NoFetch
    /\ hits = 0

Init ==
    /\ agent \in AgentConfigs
    /\ country \in Countries
    /\ RunInit
    /\ call = NoCall

\* Lines 699-715.
Initialize ==
    /\ pc = "INIT"
    /\ pc' = "SEARCH_STATISTICS"
    /\ country_data' = empty_data
    /\ found_statistics' = {}
    /\ \E k \in DOMAIN Engines : current_engine' = Engines[k]      \* random.choice
    /\ stat_i' = 1
    /\ UNCHANGED << agent, country, source_i, url_i, result, log, fetched, hits, call >>

\* The bound on the steps whose fetch brings back content.
Hit(response) ==
    /\ HasContent(response) => hits < MaxHits
    /\ hits' = IF HasContent(response) THEN hits + 1 ELSE hits

Fetch(op, response) ==
    /\ Hit(response)
    /\ fetched' = [op |-> op, response |-> response]

\* Lines 733-747, the search page being `response` and the page behind the
\* results' urls being `page`: the step of the run once the DataPoints are
\* extracted.
StatisticSearched(statistic, engine, response, page, data_points) ==
    /\ Hit(response)
    /\ fetched' = [op |-> "search", response |-> response, page |-> page]
    /\ current_engine' = engine
    /\ log' = log \o << [op |-> "search", engine |-> engine] >>
                  \o (IF Len(data_points) > 0 THEN << [op |-> "fetch_result"] >> ELSE << >>)
    /\ IF Len(data_points) > 0                                      \* line 739
       THEN /\ country_data' = add_points(country_data, category_of(statistic),
                                          statistic, data_points)
            /\ found_statistics' = found_statistics \cup {statistic}
       ELSE UNCHANGED << country_data, found_statistics >>
    /\ stat_i' = stat_i + 1
    /\ UNCHANGED << pc, agent, country, source_i, url_i, result, call >>

\* A result's page is fetched only when its title or snippet is relevant
\* (line 593); with no such result the web is not asked for a page.
PagesFor(results, statistic) ==
    IF \E k \in DOMAIN results :
          \/ analyze_text_relevance(results[k].title, statistic).relevance
          \/ analyze_text_relevance(results[k].snippet, statistic).relevance
    THEN ResultResponses(statistic, country)
    ELSE { Failure }

SearchWith(statistic, engine, response, results) ==
    \E page \in PagesFor(results, statistic) :
        StatisticSearched(statistic, engine, response, page,
            extract_data_from_search_results(results, statistic, country,
                                             [ k \in DOMAIN results |-> page ]))

\* Lines 727-747.
SearchOn(statistic, engine) ==
    \E response \in SearchResponses(statistic, country) :
        SearchWith(statistic, engine, response, search_web(engine, response))

\* Lines 718-747: one iteration of the statistics loop.
SearchStatistic ==
    /\ pc = "SEARCH_STATISTICS"
    /\ stat_i <= Len(KEY_STATISTICS)
    /\ IF KEY_STATISTICS[stat_i] \in found_statistics               \* line 720
       THEN /\ stat_i' = stat_i + 1
            /\ UNCHANGED << pc, agent, country, country_data, found_statistics,
                            current_engine, source_i, url_i, result, log, fetched,
                            hits, call >>
       ELSE IF ~agent.has_stat_to_category                          \* line 724
       THEN Abort("'HealthcareResearchAgent' object has no attribute 'stat_to_category'")
       ELSE SearchOn(KEY_STATISTICS[stat_i], next_engine(current_engine))

\* Lines 749-753: the statistics loop is over; the population sources are
\* selected.  On an element of DATA_SOURCES, a string, s['name'] raises
\* TypeError outside every inner handler.
BeginPrimarySources ==
    /\ pc = "SEARCH_STATISTICS"
    /\ stat_i > Len(KEY_STATISTICS)
    /\ IF agent.sources = "DATA_SOURCES"
       THEN Abort("string indices must be integers")
       ELSE /\ pc' = "SEARCH_PRIMARY_SOURCES"
            /\ source_i' = 1
            /\ UNCHANGED << agent, country, country_data, found_statistics,
                            current_engine, stat_i, url_i, result, log, fetched,
                            hits, call >>

population_sources == population_sources_of(SOURCE_RECORDS)

\* The step of a source loop once the page is scanned; st is [data, found].
Scanned(op, response, st) ==
    /\ Fetch(op, response)
    /\ country_data' = st.data
    /\ found_statistics' = st.found
    /\ log' = Append(log, [op |-> op])

\* Lines 756-790 for one source, its page being `response`.
PrimaryScan(response, source, base_url) ==
    Scanned("fetch_primary", response,
            IF response.kind = "http"
            THEN primary_page([data |-> country_data, found |-> found_statistics],
                              response.elements, source, base_url)
            ELSE [data |-> country_data, found |-> found_statistics])

\* Lines 754-797: one iteration of the population-source loop.  Both handlers
\* (lines 791 and 795) go on to the next source.
SearchPrimarySource ==
    /\ pc = "SEARCH_PRIMARY_SOURCES"
    /\ source_i <= Len(population_sources)
    /\ \E response \in PrimaryResponses :
          PrimaryScan(response, population_sources[source_i],
                      format_url(population_sources[source_i].url_template,
                                 country_code_of(country)))
    /\ source_i' = source_i + 1
    /\ UNCHANGED << pc, agent, country, current_engine, stat_i, url_i, result, call >>

\* The population-source loop handing over to the statistics loop again.
BeginSecondarySources_restart ==
    /\ pc = "SEARCH_PRIMARY_SOURCES"
    /\ source_i > Len(population_sources)
    /\ pc' = "SEARCH_STATISTICS"
    /\ stat_i' = 1
    /\ UNCHANGED << agent, country, country_data, found_statistics, current_engine,
                    source_i, url_i, result, log, fetched, hits, call >>

\* Lines 799-802: the population-source loop is over.
BeginSecondarySources ==
    /\ pc = "SEARCH_PRIMARY_SOURCES"
    /\ source_i > Len(population_sources)
    /\ pc' = "SEARCH_SECONDARY_SOURCES"
    /\ source_i' = 1
    /\ url_i' = 1
    /\ UNCHANGED << agent, country, country_data, found_statistics, current_engine,
                    stat_i, result, log, fetched, hits, call >>

\* Lines 808-899 for one url of one source, its page being `response`.
\* RequestException (line 897) goes on to the next url of the source; any
\* other exception (line 901) goes on to the next source.
SecondaryScan(response, source, urls) ==
    /\ Scanned("fetch_secondary", response,
               IF response.kind = "http"
               THEN source_page([data |-> country_data, found |-> found_statistics],
                                response, source, urls[url_i])
               ELSE [data |-> country_data, found |-> found_statistics])
    /\ IF response.kind = "exception" \/ url_i = Len(urls)
       THEN source_i' = source_i + 1 /\ url_i' = 1
       ELSE source_i' = source_i /\ url_i' = url_i + 1

\* Lines 802-903: one url of the source loop.
SearchSecondaryUrl ==
    /\ pc = "SEARCH_SECONDARY_SOURCES"
    /\ source_i <= Len(SOURCE_RECORDS)
    /\ \E response \in SecondaryResponses :
          SecondaryScan(response, SOURCE_RECORDS[source_i],
                        urls_to_search(SOURCE_RECORDS[source_i], country_code_of(country)))
    /\ UNCHANGED << pc, agent, country, current_engine, stat_i, result, call >>

\* Line 905: the source loop is over.
BeginSummarize ==
    /\ pc = "SEARCH_SECONDARY_SOURCES"
    /\ source_i > Len(SOURCE_RECORDS)
    /\ pc' = "SUMMARIZE"
    /\ UNCHANGED << agent, country, country_data, found_statistics, current_engine,
                    stat_i, source_i, url_i, result, log, fetched, hits, call >>

\* Lines 937-939.
Summarized(structured_data) ==
    \E summary \in create_country_summary(structured_data) :
        result' = search_country_data_return(structured_data, summary)

\* Lines 905-939: flatten, summary, return.
Summarize ==
    /\ pc = "SUMMARIZE"
    /\ Summarized(flatten(country, country_data))
    /\ log' = log \o << [op |-> "flatten"], [op |-> "summary"] >>
    /\ pc' = "DONE"
    /\ UNCHANGED << agent, country, country_data, found_statistics, current_engine,
                    stat_i, source_i, url_i, fetched, hits, call >>

Next ==
    \/ Initialize
    \/ SearchStatistic
    \/ BeginPrimarySources
    \/ SearchPrimarySource
    \/ BeginSecondarySources
    \/ SearchSecondaryUrl
    \/ BeginSummarize
    \/ Summarize

Spec == Init /\ [][Next]_vars

(***************************************************************************)
(* analyze_text_relevance on its own: one call on a text of at most        *)
(* MaxWords fragments and a statistic.                                     *)
(***************************************************************************)

MaxWords == 2

RelevanceWords ==
    << "Population", "inhabitants", "death", "rate", "health care", "1,234", "5%" >>

RECURSIVE TextsOf(_)
TextsOf(n) ==
    IF n = 0 THEN { "" }
    ELSE TextsOf(n - 1)
         \cup { w : w \in Range(RelevanceWords) }
         \cup { t \o " " \o w : t \in TextsOf(n - 1) \ { "" }, w \in Range(RelevanceWords) }

RelevanceTexts == TextsOf(MaxWords)

RelevanceStatistics == Range(KEY_STATISTICS) \cup { "Mortality Rate", "healthcare access" }

RelevanceInit ==
    /\ agent = ConstructedAgent
    /\ country = "France"
    /\ RunInit
    /\ \E text \in RelevanceTexts, statistic \in RelevanceStatistics :
          call = [fn |-> "analyze_text_relevance", text |-> text,
                  statistic |-> statistic, ret |-> << >>]

\* Lines 540-559: the call returns.
AnalyzeTextRelevance ==
    /\ call.fn = "analyze_text_relevance"
    /\ call.ret = << >>
    /\ call' = [call EXCEPT !.ret = << analyze_text_relevance(call.text, call.statistic) >>]
    /\ UNCHANGED run_vars

RelevanceNext == AnalyzeTextRelevance

RelevanceSpec == RelevanceInit /\ [][RelevanceNext]_vars

(***************************************************************************)
(* Properties.                                                             *)
(***************************************************************************)

SearchPhases ==
    { "SEARCH_STATISTICS", "SEARCH_PRIMARY_SOURCES", "SEARCH_SECONDARY_SOURCES" }

Phases ==
    << "INIT", "SEARCH_STATISTICS", "SEARCH_PRIMARY_SOURCES",
       "SEARCH_SECONDARY_SOURCES", "SUMMARIZE", "DONE" >>

PhaseRank(phase) == CHOOSE k \in DOMAIN Phases : Phases[k] = phase

\* The phase a logged fetch or computation belongs to.
OpPhase(op) ==
    CASE op \in { "search", "fetch_result" } -> "SEARCH_STATISTICS"
      [] op = "fetch_primary"                 -> "SEARCH_PRIMARY_SOURCES"
      [] op = "fetch_secondary"               -> "SEARCH_SECONDARY_SOURCES"
      [] op \in { "flatten", "summary" }      -> "SUMMARIZE"

IsSearch(event) == event.op = "search"

Searches == SelectSeq(log, IsSearch)

LoggedOps == { log[k].op : k \in DOMAIN log }

\* The statistics with a DataPoint in the findings.
CollectedStatistics == { dp.statistic : dp \in points_in(country_data) }

\* C1: an exception raised inside one iteration of a search phase is caught
\* there, so no step of SEARCH_STATISTICS, SEARCH_PRIMARY_SOURCES or
\* SEARCH_SECONDARY_SOURCES ends the run: the loops go on until SUMMARIZE.
C1_IterationFailureCaught ==
    [][(pc \in SearchPhases) => pc' # "DONE"]_vars

\* C2: the call never hands an exception to its caller: while it runs it has
\* returned nothing and can go on; once it is over it has returned either the
\* pair (dataset, summary) or the error string.
C2_ReturnsPairOrErrorString ==
    /\ pc # "DONE" => result = NoResult /\ ENABLED Next
    /\ pc = "DONE" =>
          \/ /\ result.kind = "pair"
             /\ DOMAIN result = { "kind", "dataset", "summary" }
             /\ result.summary.total_indicators_found = Len(result.dataset)
          \/ /\ result.kind = "error"
             /\ DOMAIN result = { "kind", "message" }
             /\ startswith(result.message, "Error during research: ")

\* A run of the agent as __init__ leaves it has ended on the error string.
C2_Witness ==
    /\ pc = "DONE"
    /\ agent = ConstructedAgent
    /\ result.kind = "error"

\* C3: when the call is over, every DataPoint added to the findings during
\* the run is a StructuredEntry of the returned dataset.
C3_PartialResultsReturned ==
    pc = "DONE" =>
        \A dp \in points_in(country_data) :
            /\ result.kind = "pair"
            /\ \E k \in DOMAIN result.dataset :
                  result.dataset[k] =
                      structured_entry(country, dp.category, dp.statistic, dp.point)

C8_EnginesAlternate ==
    \A i \in 1..(Len(Searches) - 1) : Searches[i].engine # Searches[i + 1].engine

\* Three queries were made, the first of them having produced data.
C8_Witness ==
    /\ Len(Searches) >= 3
    /\ KEY_STATISTICS[1] \in found_statistics
    /\ Searches[1].engine # Searches[2].engine

AllKeywords ==
    UNION { Range(STATISTICS_CATEGORIES[i].keywords) : i \in DOMAIN STATISTICS_CATEGORIES }

RECURSIVE keyword_count(_)
keyword_count(categories) ==
    IF Len(categories) = 0 THEN 0
    ELSE Len(Head(categories).keywords) + keyword_count(Tail(categories))

\* The number of category lists a keyword is in, counting repeats.
RECURSIVE occurrences_in(_, _)
occurrences_in(categories, keyword) ==
    IF Len(categories) = 0 THEN 0
    ELSE Cardinality({ k \in DOMAIN Head(categories).keywords :
                         Head(categories).keywords[k] = keyword })
         + occurrences_in(Tail(categories), keyword)

Occurrences(keyword) == occurrences_in(STATISTICS_CATEGORIES, keyword)

\* C9: the taxonomy, whose categories key the findings of every run, has 5
\* categories and 17 keywords; every keyword is in
\* exactly one category list, each of the 16 searched keywords among them;
\* one keyword, "population density", is outside the searched set.
C9_Taxonomy ==
    /\ DOMAIN country_data = CategoryNames
    /\ Len(STATISTICS_CATEGORIES) = 5
    /\ Cardinality(CategoryNames) = 5
    /\ keyword_count(STATISTICS_CATEGORIES) = 17
    /\ Len(KEY_STATISTICS) = 16
    /\ Cardinality(Range(KEY_STATISTICS)) = 16
    /\ \A keyword \in AllKeywords \cup Range(KEY_STATISTICS) : Occurrences(keyword) = 1
    /\ AllKeywords \ Range(KEY_STATISTICS) = { "population density" }

\* The findings of a run are keyed by the categories of the taxonomy.
C9_Witness ==
    /\ pc = "SEARCH_STATISTICS"
    /\ DOMAIN country_data = CategoryNames
    /\ "population density" \in DOMAIN stat_to_category

\* C9 as stated: the findings have 5 categories, with 16 keywords, every searched keyword in
\* exactly one category list, no keyword outside the searched set.
C9_AsStated ==
    /\ Cardinality(DOMAIN country_data) = 5
    /\ Len(STATISTICS_CATEGORIES) = 5
    /\ keyword_count(STATISTICS_CATEGORIES) = 16
    /\ \A keyword \in Range(KEY_STATISTICS) : Occurrences(keyword) = 1
    /\ AllKeywords \subseteq Range(KEY_STATISTICS)

\* The synonyms of a lowercased statistic: the list of the first key of the
\* synonym table that occurs in it.
SynonymsFor(statistic_lower) ==
    LET keys == { i \in DOMAIN Synonyms : Contains(statistic_lower, Synonyms[i].key) }
    IN  IF keys = {} THEN {}
        ELSE Range(Synonyms[CHOOSE i \in keys : \A j \in keys : i <= j].values)

Returned(fn) == call.fn = fn /\ call.ret # << >>

\* What C10 says of a call: r is what it returned on a text and a statistic.
RelevanceAsStated(r, text, statistic) ==
    /\ r.score \in { ExactScore, SynonymScore, NoScore }
    /\ r.relevance <=> r.score > 0
    /\ r.numbers # << >> => r.relevance
    /\ IF text = ""
       THEN ~r.relevance /\ r.score = NoScore /\ r.numbers = << >>
       ELSE IF Contains(lower(text), lower(statistic))
       THEN r.relevance /\ r.score = ExactScore /\ r.numbers = extract_numerical_data(text)
       ELSE IF \E synonym \in SynonymsFor(lower(statistic)) : Contains(lower(text), synonym)
       THEN r.relevance /\ r.score = SynonymScore /\ r.numbers = extract_numerical_data(text)
       ELSE ~r.relevance /\ r.score = NoScore /\ r.numbers = << >>

\* C10: analyze_text_relevance returns (true, 1.0, facts) on an exact match,
\* else (true, 0.7, facts) on a synonym match, else (false, 0.0, empty), and
\* (false, 0.0, empty) on the empty text; the score is 1.0, 0.7 or 0.0, the
\* text is relevant exactly when the score is above 0, and facts come only
\* with relevance.
C10_RelevanceRule ==
    Returned("analyze_text_relevance") =>
        RelevanceAsStated(call.ret[1], call.text, call.statistic)

\* A text with a synonym of the statistic but not its phrase scored 0.7 and
\* gave its numeric fact.
C10_Witness ==
    /\ Returned("analyze_text_relevance")
    /\ call.statistic = "population"
    /\ call.text = "inhabitants 5%"
    /\ call.ret[1].score = SynonymScore
    /\ Len(call.ret[1].numbers) = 1

(***************************************************************************)
(* extract_numerical_data on its own: one call on a text of at most        *)
(* MaxTokens pieces separated by a space.  Each piece comes with the facts *)
(* (value, is_percent) that the number pattern, read by hand, finds in it; *)
(* no piece starts with whitespace, '%', ',' or '.', so the pieces of a    *)
(* text do not run into each other.                                        *)
(***************************************************************************)

MaxTokens == 2

Number(num, exp, is_percent) ==
    [value |-> [num |-> num, exp |-> exp], is_percent |-> is_percent]

NumberPieces ==
    << [text |-> "no digits here", facts |-> << >>],
       [text |-> "Population: 1,234,567 (12.5%)",
        facts |-> << Number(1234567, 0, FALSE), Number(125, 1, TRUE) >>],
       [text |-> "France population: 67,000,000 in 2023",
        facts |-> << Number(67000000, 0, FALSE), Number(2023, 0, FALSE) >>],
       [text |-> "1234,567", facts |-> << Number(1234, 0, FALSE), Number(567, 0, FALSE) >>],
       [text |-> "1,2345",   facts |-> << Number(1234, 0, FALSE), Number(5, 0, FALSE) >>],
       [text |-> "12 %",     facts |-> << Number(12, 0, TRUE) >>],
       [text |-> "3.50",     facts |-> << Number(35, 1, FALSE) >>],
       [text |-> "7.",       facts |-> << Number(7, 0, FALSE) >>],
       [text |-> "007",      facts |-> << Number(7, 0, FALSE) >>],
       [text |-> "1.2.3",    facts |-> << Number(12, 1, FALSE), Number(3, 0, FALSE) >>],
       [text |-> "45%%",     facts |-> << Number(45, 0, TRUE) >>],
       [text |-> "99,99%",   facts |-> << Number(99, 0, FALSE), Number(99, 0, TRUE) >>] >>

\* The sequences of at most n pieces.
RECURSIVE PieceSeqs(_)
PieceSeqs(n) ==
    IF n = 0 THEN { << >> }
    ELSE PieceSeqs(n - 1)
         \cup { Append(s, k) : s \in { q \in PieceSeqs(n - 1) : Len(q) = n - 1 },
                               k \in DOMAIN NumberPieces }

RECURSIVE text_of_pieces(_)
text_of_pieces(pieces) ==
    IF Len(pieces) = 0 THEN ""
    ELSE IF Len(pieces) = 1 THEN NumberPieces[pieces[1]].text
    ELSE NumberPieces[pieces[1]].text \o " " \o text_of_pieces(Tail(pieces))

RECURSIVE facts_of_pieces(_)
facts_of_pieces(pieces) ==
    IF Len(pieces) = 0 THEN << >>
    ELSE NumberPieces[pieces[1]].facts \o facts_of_pieces(Tail(pieces))

NumbersInit ==
    /\ agent = ConstructedAgent
    /\ country = "France"
    /\ RunInit
    /\ \E pieces \in PieceSeqs(MaxTokens) :
          call = [fn |-> "extract_numerical_data", pieces |-> pieces,
                  text |-> text_of_pieces(pieces), ret |-> << >>]

\* Lines 515-538: the call returns.
ExtractNumericalData ==
    /\ call.fn = "extract_numerical_data"
    /\ call.ret = << >>
    /\ call' = [call EXCEPT !.ret = << extract_numerical_data(call.text) >>]
    /\ UNCHANGED run_vars

NumbersNext == ExtractNumericalData

NumbersSpec == NumbersInit /\ [][NumbersNext]_vars

HasDigit(text) == \E i \in 1..Len(text) : IsDigit(CharAt(text, i))

\* A fact without its context window.
bare_fact(fact) == [value |-> fact.value, is_percent |-> fact.is_percent]

bare_facts(facts) == [ k \in DOMAIN facts |-> bare_fact(facts[k]) ]

\* C11: extract_numerical_data returns one fact per match of the number
\* pattern, left to right: the facts are those of the pieces of the text, in
\* text order, each with the value of its number without the commas and with
\* is_percent exactly when the match holds '%'; a text without a digit gives
\* no fact; each fact's context is a part of the text.
C11_NumericFacts ==
    Returned("extract_numerical_data") =>
        /\ bare_facts(call.ret[1]) = facts_of_pieces(call.pieces)
        /\ ~HasDigit(call.text) => call.ret[1] = << >>
        /\ \A k \in DOMAIN call.ret[1] : Contains(call.text, call.ret[1][k].context)

\* The example of the specification followed by a spaced percentage.
C11_Witness ==
    /\ Returned("extract_numerical_data")
    /\ call.text = "Population: 1,234,567 (12.5%) 12 %"
    /\ bare_facts(call.ret[1]) =
          << Number(1234567, 0, FALSE), Number(125, 1, TRUE), Number(12, 0, TRUE) >>

(***************************************************************************)
(* extract_data_from_search_results on its own: one call on at most        *)
(* MaxResults search results, a statistic and a country, the fetch of each *)
(* relevant result's url being answered by the same page.                  *)
(***************************************************************************)

MaxResults == 2

\* A SearchResult as search_web returns it.
SearchResult(title, url, snippet, source) ==
    [title |-> title, url |-> url, snippet |-> snippet, source |-> source]

ExtractResults ==
    << SearchResult("France population", "https://stats.example/a",
                     "France population: 67,000,000 in 2023", "Google"),
       SearchResult("Inhabitants by region", "https://stats.example/b", "", "DuckDuckGo"),
       SearchResult("Weather today", "https://stats.example/c", "Sunny, 21 degrees", "Google"),
       SearchResult("World data", "https://stats.example/d",
                     "Population of FRANCE rose to 68 million", "Google"),
       SearchResult("People count", "https://stats.example/e", "population 5%", "DuckDuckGo"),
       SearchResult("Life expectancy", "https://stats.example/f",
                     "82 years in Germany", "Google") >>

RECURSIVE ResultSeqs(_)
ResultSeqs(n) ==
    IF n = 0 THEN { << >> }
    ELSE ResultSeqs(n - 1)
         \cup { Append(s, ExtractResults[k]) :
                  s \in { q \in ResultSeqs(n - 1) : Len(q) = n - 1 },
                  k \in DOMAIN ExtractResults }

ExtractStatistics == { "population", "life expectancy" }

ExtractPages ==
    { Failure,
      Page(200, << >>,
           << "The population of France was 67,000,000 in 2023" >>,
           << TwoRowTable("Year", "Life expectancy", "2023", "82") >>) }

ExtractInit ==
    /\ agent = ConstructedAgent
    /\ country = "France"
    /\ RunInit
    /\ \E results \in ResultSeqs(MaxResults), statistic \in ExtractStatistics,
          page \in ExtractPages :
          call = [fn |-> "extract_data_from_search_results", results |-> results,
                  statistic |-> statistic, country |-> country, page |-> page,
                  ret |-> << >>]

\* Lines 579-694: the call returns.
ExtractDataFromSearchResults ==
    /\ call.fn = "extract_data_from_search_results"
    /\ call.ret = << >>
    /\ call' = [call EXCEPT !.ret =
                   << extract_data_from_search_results(
                          call.results, call.statistic, call.country,
                          [ k \in DOMAIN call.results |-> call.page ]) >>]
    /\ UNCHANGED run_vars

ExtractNext == ExtractDataFromSearchResults

ExtractSpec == ExtractInit /\ [][ExtractNext]_vars

\* A DataPoint built from a result's title and snippet carries the result's
\* own source; page and table DataPoints carry "Web Page: .." or "Web Table: ..".
IsSnippetPoint(data_point) == data_point.source \in { "Google", "DuckDuckGo" }

\* The title or the snippet of the result is relevant to the statistic of the call.
IsRelevantResult(hit) ==
    \/ analyze_text_relevance(hit.title, call.statistic).relevance
    \/ analyze_text_relevance(hit.snippet, call.statistic).relevance

\* Base match score plus the country bonus, as C12 states it.
ScoreAsStated(hit, statistic, country_name) ==
    Max2(analyze_text_relevance(hit.title, statistic).score,
         analyze_text_relevance(hit.snippet, statistic).score)
    + (IF Contains(lower(hit.title \o " - " \o hit.snippet), lower(country_name))
       THEN 5 ELSE 0)

SnippetPointsAsStated(snippets, relevant) ==
    /\ Len(snippets) = Len(relevant)
    /\ \A k \in DOMAIN snippets :
          /\ snippets[k].text = relevant[k].title \o " - " \o relevant[k].snippet
          /\ snippets[k].relevance_score =
                ScoreAsStated(relevant[k], call.statistic, call.country)

\* C12: the DataPoints built from titles and snippets are, in order, one per
\* result whose title or snippet is relevant, none for the others, and each
\* has relevance_score = max(title score, snippet score) + 0.5 exactly when
\* the country occurs, case-insensitively, in "<title> - <snippet>".
C12_SnippetScore ==
    Returned("extract_data_from_search_results") =>
        SnippetPointsAsStated(SelectSeq(call.ret[1], IsSnippetPoint),
                              SelectSeq(call.results, IsRelevantResult))

\* A result without the country (0.7, a synonym in the title) after one with
\* the country in another case (1.0 + 0.5) and one that is not relevant.
C12_Witness ==
    /\ Returned("extract_data_from_search_results")
    /\ call.statistic = "population"
    /\ call.results = << ExtractResults[4], ExtractResults[2] >>
    /\ Len(call.ret[1]) >= 2
    /\ call.ret[1][1].relevance_score = 15
    /\ call.ret[1][Len(call.ret[1])].relevance_score = 7

\* The statistic of the last search-engine query of the run.
SearchedStatistic == KEY_STATISTICS[stat_i - 1]

\* A year 2000-2099 standing as a token of its own at position i.
YearTokenAt(text, i) ==
    /\ i + 3 <= Len(text)
    /\ SubSeq(text, i, i + 1) = "20"
    /\ IsDigit(CharAt(text, i + 2)) /\ IsDigit(CharAt(text, i + 3))
    /\ i = 1 \/ CharAt(text, i - 1) = " "
    /\ i + 3 = Len(text) \/ CharAt(text, i + 4) = " "

\* The snippet of C13: the statistic phrase, the country name, the number
\* 67,000,000 and a year as a separate token.
SnippetAsStated(snippet) ==
    /\ Contains(lower(snippet), lower(SearchedStatistic))
    /\ Contains(lower(snippet), lower(country))
    /\ Contains(snippet, "67,000,000")
    /\ \E i \in 1..Len(snippet) : YearTokenAt(snippet, i)

\* The DataPoint of C13: score at least 1.5, temporal, with the fact 67000000.0.
PointAsStated(data_point) ==
    /\ ~data_point.is_table
    /\ data_point.relevance_score >= 15
    /\ data_point.has_temporal_data
    /\ \E n \in DOMAIN data_point.numbers :
          data_point.numbers[n].value = [num |-> 67000000, exp |-> 0]

SearchReturned == fetched.op = "search" /\ fetched.response.kind = "http"

TablePoints == { dp \in points_in(country_data) : dp.point.is_table }

\* The DataPoints of the findings that are not tables.
TextPoints == { dp \in points_in(country_data) : ~dp.point.is_table }

SourceNames == { SOURCE_RECORDS[k].name : k \in DOMAIN SOURCE_RECORDS }

HarvestedTables ==
    IF fetched.op = "search" /\ fetched.page.kind = "http" THEN fetched.page.tables
    ELSE IF fetched.op = "fetch_secondary" /\ fetched.response.kind = "http"
    THEN fetched.response.tables
    ELSE << >>

\* The headers of a table: its <th> texts, else the cell texts of its first row.
HeadersAsStated(table) ==
    IF table_ths(table) # << >> THEN table_ths(table)
    ELSE IF Len(table) > 0 THEN row_texts(table[1]) ELSE << >>

\* The rows of a table as C15 states them: without the header row when the
\* headers came from <th>, all rows when they were borrowed from the first row.
RowsAsStated(table) ==
    IF table_ths(table) # << >> THEN rows_of(Tail(table)) ELSE rows_of(table)

\* C15: a table DataPoint harvested from a table of the page holds in
\* table_rows the rows after the header row when the headers came from <th>,
\* and all rows, the first included, when the headers were borrowed.
C15_HeaderRowSkippedOnlyForTh ==
    \A k \in DOMAIN HarvestedTables :
        \A dp \in TablePoints :
            dp.point.table_headers = HeadersAsStated(HarvestedTables[k]) =>
                dp.point.table_rows = RowsAsStated(HarvestedTables[k])

MaxBlocks == 3

\* BeautifulSoup fails on the body.
ParseFailure == [kind |-> "parse_exception"]

NoResults == << >>

\* div.g blocks of a Google page, each with the results it stands for.
GoogleBlocks ==
    << [block   |-> Block("France population", "https://a.example/p", "67,000,000 in 2023"),
        results |-> << SearchResult("France population", "https://a.example/p",
                                    "67,000,000 in 2023", "Google") >>],
       [block   |-> Block("Life expectancy", "/url?q=https://b.example/q&sa=U", "82 years"),
        results |-> << SearchResult("Life expectancy", "https://b.example/q",
                                    "82 years", "Google") >>],
       [block   |-> UntitledBlock, results |-> NoResults],
       [block   |-> [Block("No link", "", "text") EXCEPT !.has_anchor = FALSE, !.has_href = FALSE],
        results |-> NoResults],
       [block   |-> [Block("No href", "", "text") EXCEPT !.has_href = FALSE],
        results |-> NoResults],
       [block   |-> Block("", "https://c.example/r", "text"), results |-> NoResults],
       [block   |-> [Block("Bare", "https://d.example/s", "") EXCEPT !.has_snippet = FALSE],
        results |-> << SearchResult("Bare", "https://d.example/s", "", "Google") >>] >>

\* div.result blocks of a DuckDuckGo page, each with the results it stands for.
DuckDuckGoBlocks ==
    << [block   |-> Block("France population", "https://a.example/p", "67,000,000 in 2023"),
        results |-> << SearchResult("France population", "https://a.example/p",
                                    "67,000,000 in 2023", "DuckDuckGo") >>],
       [block   |-> Block("Life expectancy", "/l/?uddg=https%3A%2F%2Fb.example%2Fq&rut=1",
                          "82 years"),
        results |-> << SearchResult("Life expectancy", "https://b.example/q",
                                    "82 years", "DuckDuckGo") >>],
       [block   |-> UntitledBlock, results |-> NoResults],
       [block   |-> [Block("No href", "", "text") EXCEPT !.has_href = FALSE],
        results |-> NoResults],
       [block   |-> Block("", "https://c.example/r", "text"), results |-> NoResults],
       [block   |-> [Block("Bare", "https://d.example/s", "") EXCEPT !.has_snippet = FALSE],
        results |-> << SearchResult("Bare", "https://d.example/s", "", "DuckDuckGo") >>],
       [block   |-> Block("Relative", "/l/?x=1", "text"),
        results |-> << SearchResult("Relative", "/l/?x=1", "text", "DuckDuckGo") >>] >>

\* The engine names a caller passes.
EngineNames == { "google", "Google", "duckduckgo", "bing" }

BlocksFor(engine) == IF engine = "duckduckgo" THEN DuckDuckGoBlocks ELSE GoogleBlocks

\* The sequences of at most n of the given blocks.
RECURSIVE BlockSeqs(_, _)
BlockSeqs(pool, n) ==
    IF n = 0 THEN { << >> }
    ELSE BlockSeqs(pool, n - 1)
         \cup { Append(s, pool[k]) :
                  s \in { q \in BlockSeqs(pool, n - 1) : Len(q) = n - 1 },
                  k \in DOMAIN pool }

blocks_of(pieces) == [ k \in DOMAIN pieces |-> pieces[k].block ]

RECURSIVE results_of(_)
results_of(pieces) ==
    IF Len(pieces) = 0 THEN << >>
    ELSE Head(pieces).results \o results_of(Tail(pieces))

SearchWebInit ==
    /\ agent = ConstructedAgent
    /\ country = "France"
    /\ RunInit
    /\ \E engine \in EngineNames :
          \/ \E response \in { Failure, RequestFailure, ParseFailure } :
                call = [fn |-> "search_web", engine |-> engine, pieces |-> << >>,
                        response |-> response, ret |-> << >>]
          \/ \E pieces \in BlockSeqs(BlocksFor(engine), MaxBlocks) :
                call = [fn |-> "search_web", engine |-> engine, pieces |-> pieces,
                        response |-> Page(200, blocks_of(pieces), << >>, << >>),
                        ret |-> << >>]

\* Lines 427-513: the call returns.
SearchWeb ==
    /\ call.fn = "search_web"
    /\ call.ret = << >>
    /\ call' = [call EXCEPT !.ret = << search_web_outcome(call.engine, call.response) >>]
    /\ UNCHANGED run_vars

SearchWebNext == SearchWeb

SearchWebSpec == SearchWebInit /\ [][SearchWebNext]_vars

\* The source value that names the engine queried.
SourceOfEngine(engine) ==
    IF engine \in { "google", "Google" } THEN "Google"
    ELSE IF engine = "duckduckgo" THEN "DuckDuckGo"
    ELSE ""

\* C17: for a page of google or duckduckgo, search_web returns, in page
\* order, exactly the results of the blocks that have a title and a link;
\* each has a non-empty title, a non-empty url and the engine as source, and
\* the malformed blocks in between are left out without ending the page.
C17_WellFormedBlocksReturned ==
    (/\ Returned("search_web")
     /\ call.response.kind = "http"
     /\ SourceOfEngine(call.engine) # "") =>
        /\ call.ret[1].kind = "returned"
        /\ call.ret[1].results = results_of(call.pieces)
        /\ \A k \in DOMAIN call.ret[1].results :
              /\ call.ret[1].results[k].title # ""
              /\ call.ret[1].results[k].url # ""
              /\ call.ret[1].results[k].source = SourceOfEngine(call.engine)

\* A Google page with a well-formed block, a block whose anchor has no href,
\* and another well-formed block: both well-formed blocks are returned.
C17_Witness ==
    /\ Returned("search_web")
    /\ call.engine = "google"
    /\ Len(call.pieces) = 3
    /\ call.pieces[1].results # << >>
    /\ call.pieces[2].block.has_anchor /\ ~call.pieces[2].block.has_href
    /\ call.pieces[3].results # << >>
    /\ Len(call.ret[1].results) = 2

\* C18: search_web never raises; it returns the empty sequence when the fetch
\* or the parse fails and when the engine is neither google nor duckduckgo.
C18_SearchWebNeverRaises ==
    Returned("search_web") =>
        /\ call.ret[1].kind = "returned"
        /\ call.response.kind # "http" => call.ret[1].results = << >>
        /\ SourceOfEngine(call.engine) = "" => call.ret[1].results = << >>

\* The fetch of the Google page failed and the call returned [].
C18_Witness ==
    /\ Returned("search_web")
    /\ call.engine = "google"
    /\ call.response = RequestFailure
    /\ call.ret[1] = [kind |-> "returned", results |-> << >>]

\* An engine that is neither google nor duckduckgo, on a page with
\* well-formed blocks, gave [].
C18_UnknownEngine ==
    /\ Returned("search_web")
    /\ call.engine = "bing"
    /\ results_of(call.pieces) # << >>
    /\ call.ret[1] = [kind |-> "returned", results |-> << >>]


\* A response that came back with a status outside 200..299.
NonSuccess(response) ==
    /\ response.kind = "http"
    /\ (response.status < 200 \/ response.status > 299)

\* The DataPoints of the findings read from the body of a result page.
PagePoints ==
    { dp \in points_in(country_data) :
         \/ startswith(dp.point.source, "Web Page: ")
         \/ startswith(dp.point.source, "Web Table: ") }

\* C19: a step whose fetch ended with a non-2xx status adds nothing to the
\* findings: a non-2xx search page or data-source page leaves them as they
\* were, and a non-2xx result page adds no DataPoint read from its body.
C19_NonSuccessIsNoData ==
    [][ /\ (fetched'.op # "none" /\ NonSuccess(fetched'.response)) =>
              country_data' = country_data
        /\ (fetched'.op = "search" /\ NonSuccess(fetched'.page)) =>
              PagePoints' = PagePoints ]_vars


(***************************************************************************)
(* create_country_summary as a function of the StructuredEntry sequence.   *)
(***************************************************************************)

MaxEntries == 6

\* Relevance scores of entries, in tenths: a snippet hit with the country
\* bonus, a data-source table, a page-body hit.
SummaryScores == { 15, 18, 20 }

\* The fields of a StructuredEntry that create_country_summary reads; the
\* description tells the entries of one sequence apart.
SummaryEntry(k, score) ==
    [category          |-> IF score = 15 THEN "population_stats" ELSE "healthcare_stats",
     indicator         |-> IF score = 15 THEN "population" ELSE "life expectancy",
     description       |-> "finding " \o ToString(k),
     relevance_score   |-> score,
     has_temporal_data |-> score = 20,
     has_comparison    |-> FALSE,
     numerical_values  |-> IF score = 18 THEN << >> ELSE << "1" >>]

SummaryDatasets ==
    UNION { { [ k \in 1..n |-> SummaryEntry(k, scores[k]) ] :
                scores \in [1..n -> SummaryScores] } : n \in 0..MaxEntries }

SummaryInit ==
    /\ agent = ConstructedAgent
    /\ country = "France"
    /\ RunInit
    /\ \E structured_data \in SummaryDatasets :
          call = [fn |-> "create_country_summary", structured_data |-> structured_data,
                  ret |-> << >>]

\* Lines 944-971: the call returns.
CreateCountrySummary ==
    /\ call.fn = "create_country_summary"
    /\ call.ret = << >>
    /\ \E summary \in create_country_summary(call.structured_data) :
          call' = [call EXCEPT !.ret = << summary >>]
    /\ UNCHANGED run_vars

SummaryNext == CreateCountrySummary

SummarySpec == SummaryInit /\ [][SummaryNext]_vars

\* The places of a sequence of entries by relevance_score descending, ties
\* in sequence order.
RECURSIVE StableDescending(_, _)
StableDescending(entries, S) ==
    IF S = {} THEN << >>
    ELSE LET k == CHOOSE j \in S :
                    \A i \in S :
                       \/ entries[i].relevance_score < entries[j].relevance_score
                       \/ /\ entries[i].relevance_score = entries[j].relevance_score
                          /\ j <= i
         IN  << k >> \o StableDescending(entries, S \ {k})

\* The key findings C20 states: the first min(5, n) entries in that order.
KeyFindingsAsStated(entries, order) ==
    [ i \in 1..(IF Len(entries) < 5 THEN Len(entries) ELSE 5) |->
        [category    |-> entries[order[i]].category,
         indicator   |-> entries[order[i]].indicator,
         description |-> entries[order[i]].description] ]

\* C20: key_findings is the first min(5, n) entries of the sequence ordered
\* by relevance_score descending, ties in sequence order; so a dataset of
\* n >= 1 entries has min(5, n) key findings.
C20_KeyFindings ==
    Returned("create_country_summary") =>
        call.ret[1].key_findings =
            KeyFindingsAsStated(call.structured_data,
                                StableDescending(call.structured_data,
                                                 DOMAIN call.structured_data))


\* The sum of the values of a mapping with the keys S.
RECURSIVE SumOver(_, _)
SumOver(mapping, S) ==
    IF S = {} THEN 0
    ELSE LET k == CHOOSE x \in S : TRUE
         IN  mapping[k] + SumOver(mapping, S \ {k})

\* C21: for a non-empty dataset the counts of categories_coverage add up to
\* total_indicators_found, which is the number of entries, and each category's
\* count is the number of entries of that category.
C21_CoverageSumsToTotal ==
    (Returned("create_country_summary") /\ Len(call.structured_data) > 0) =>
        /\ call.ret[1].total_indicators_found = Len(call.structured_data)
        /\ SumOver(call.ret[1].categories_coverage,
                   DOMAIN call.ret[1].categories_coverage)
              = call.ret[1].total_indicators_found
        /\ DOMAIN call.ret[1].categories_coverage
              = { call.structured_data[k].category : k \in DOMAIN call.structured_data }
        /\ \A c \in DOMAIN call.ret[1].categories_coverage :
              call.ret[1].categories_coverage[c]
                 = Cardinality({ k \in DOMAIN call.structured_data :
                                   call.structured_data[k].category = c })

\* A dataset of five entries in two categories, three and two, was summarised.
C21_Witness ==
    /\ Returned("create_country_summary")
    /\ Len(call.structured_data) = 5
    /\ call.ret[1].categories_coverage =
          [population_stats |-> 3, healthcare_stats |-> 2]
    /\ call.ret[1].total_indicators_found = 5


(***************************************************************************)
(* The flatten step, lines 905-934, run twice on the same nested findings. *)
(***************************************************************************)

MaxInserts == 3

\* A DataPoint of a search result's title and snippet (lines 604-615), one of
\* a page element without numbers, and one of a data-source table, whose
\* numbers are the second cells of all its rows (line 851).
FlattenPoints ==
    << [ text |-> "France population: 67,000,000 in 2023",
         numbers |-> << [value |-> [num |-> 67000000, exp |-> 0], is_percent |-> FALSE,
                         context |-> "France population: 67,000,000 in 2023"],
                        [value |-> [num |-> 2023, exp |-> 0], is_percent |-> FALSE,
                         context |-> "France population: 67,000,000 in 2023"] >>,
         source |-> "Google", url |-> "https://stats.example/page",
         relevance_score |-> 15, has_temporal_data |-> TRUE, has_comparison |-> FALSE,
         is_table |-> FALSE ],
       [ text |-> "Figures are published yearly",
         numbers |-> << >>,
         source |-> "Web Page: France", url |-> "https://stats.example/page",
         relevance_score |-> 20, has_temporal_data |-> FALSE, has_comparison |-> FALSE,
         is_table |-> FALSE ],
       [ text |-> "Table data for population",
         numbers |-> << "Population", "67,000,000" >>,
         source |-> "World Bank", url |-> "https://data.example/fr",
         relevance_score |-> 18, has_temporal_data |-> TRUE, has_comparison |-> FALSE,
         is_table |-> TRUE,
         table_headers |-> << "Year", "Population" >>,
         table_rows |-> << << "Year", "Population" >>, << "2023", "67,000,000" >> >> ] >>

\* Where a DataPoint is filed: a category and a statistic of it.
FlattenSlots ==
    { << "healthcare_stats", "life expectancy" >>,
      << "population_stats", "population" >>,
      << "population_stats", "population density" >> }

\* The nested findings after at most n insertions.
RECURSIVE FlattenFindings(_)
FlattenFindings(n) ==
    IF n = 0 THEN { empty_data }
    ELSE FlattenFindings(n - 1)
         \cup { add_points(data, slot[1], slot[2], << FlattenPoints[k] >>) :
                  data \in FlattenFindings(n - 1),
                  slot \in FlattenSlots, k \in DOMAIN FlattenPoints }

FlattenInit ==
    /\ agent = ConstructedAgent
    /\ country = "France"
    /\ RunInit
    /\ \E data \in FlattenFindings(MaxInserts) :
          call = [fn |-> "flatten", given |-> data, data |-> data, runs |-> << >>]

\* Lines 905-934 run on the nested findings as the run before left them.
Flatten ==
    /\ call.fn = "flatten"
    /\ Len(call.runs) < 2
    /\ call' = [call EXCEPT
                  !.runs = Append(@, flatten_step(country, call.data).structured_data),
                  !.data = flatten_step(country, call.data).data]
    /\ UNCHANGED run_vars

FlattenNext == Flatten

FlattenSpec == FlattenInit /\ [][FlattenNext]_vars

CategoryPlace(name) ==
    CHOOSE i \in DOMAIN STATISTICS_CATEGORIES : STATISTICS_CATEGORIES[i].name = name

StatisticPlace(data, name, statistic) ==
    CHOOSE k \in DOMAIN data[name] : data[name][k].statistic = statistic

\* p comes before q: by category, then statistic, then DataPoint position.
ComesBefore(data, p, q) ==
    \/ CategoryPlace(p.category) < CategoryPlace(q.category)
    \/ /\ p.category = q.category
       /\ \/ StatisticPlace(data, p.category, p.statistic)
                < StatisticPlace(data, q.category, q.statistic)
          \/ /\ p.statistic = q.statistic
             /\ p.index < q.index

\* The place a DataPoint's entry has in the flattened sequence.
PlaceAsStated(data, q) ==
    1 + Cardinality({ p \in points_in(data) : ComesBefore(data, p, q) })

\* The numeric facts of a DataPoint: none for a table, whose numbers are cell
\* texts.
NumericFactsOf(point) == IF point.is_table THEN << >> ELSE point.numbers

\* The entry C23 states for a DataPoint.
EntryAsStated(entry, q) ==
    /\ entry.category = q.category
    /\ entry.indicator = q.statistic
    /\ entry.description = q.point.text
    /\ entry.primary_value =
          (IF Len(NumericFactsOf(q.point)) = 0 THEN << >>
           ELSE << NumericFactsOf(q.point)[1] >>)

\* C23: the flatten step emits one entry per DataPoint, duplicates included,
\* ordered by category, statistic and position; each entry has the
\* DataPoint's category and statistic, and as primary_value its first numeric
\* fact, or null when it has none.
C23_OneEntryPerDataPoint ==
    (call.fn = "flatten" /\ Len(call.runs) > 0) =>
        /\ Len(call.runs[1]) = Cardinality(points_in(call.given))
        /\ \A q \in points_in(call.given) :
              EntryAsStated(call.runs[1][PlaceAsStated(call.given, q)], q)


(***************************************************************************)
(* scrape_website, lines 398-404: one browser per call.  `call` holds the  *)
(* line the call in progress is at ("idle" between calls), the number of   *)
(* browser processes running, and how the calls made so far ended.         *)
(***************************************************************************)

MaxCalls == 3

ScrapeInit ==
    /\ agent = ConstructedAgent
    /\ country = "France"
    /\ RunInit
    /\ call = [fn |-> "scrape_website", at |-> "idle", running |-> 0, ended |-> << >>]

\* A statement of the call raises: nothing below it runs and the exception
\* leaves scrape_website, which has no handler and no finally.
ScrapeRaises(how) ==
    call' = [call EXCEPT !.at = "idle", !.ended = Append(@, how)]

\* Line 400: webdriver.Chrome starts a browser process, or fails to.
StartBrowser ==
    /\ call.fn = "scrape_website"
    /\ call.at = "idle"
    /\ Len(call.ended) < MaxCalls
    /\ \/ call' = [call EXCEPT !.at = "get", !.running = @ + 1]
       \/ ScrapeRaises("no browser")
    /\ UNCHANGED run_vars

\* Line 401: driver.get(url) loads the page, or raises.
DriverGet ==
    /\ call.fn = "scrape_website"
    /\ call.at = "get"
    /\ \/ call' = [call EXCEPT !.at = "parse"]
       \/ ScrapeRaises("page load failure")
    /\ UNCHANGED run_vars

\* Line 402: BeautifulSoup(driver.page_source, ...) parses, or raises.
ParsePage ==
    /\ call.fn = "scrape_website"
    /\ call.at = "parse"
    /\ \/ call' = [call EXCEPT !.at = "quit"]
       \/ ScrapeRaises("parse failure")
    /\ UNCHANGED run_vars

\* Line 403: driver.quit() terminates the browser.
DriverQuit ==
    /\ call.fn = "scrape_website"
    /\ call.at = "quit"
    /\ call' = [call EXCEPT !.at = "return", !.running = @ - 1]
    /\ UNCHANGED run_vars

\* Line 404: the page text is returned.
ReturnText ==
    /\ call.fn = "scrape_website"
    /\ call.at = "return"
    /\ call' = [call EXCEPT !.at = "idle", !.ended = Append(@, "returned")]
    /\ UNCHANGED run_vars

ScrapeNext ==
    \/ StartBrowser
    \/ DriverGet
    \/ ParsePage
    \/ DriverQuit
    \/ ReturnText

ScrapeSpec == ScrapeInit /\ [][ScrapeNext]_vars

\* C24: whenever every call of scrape_website made so far has ended, by
\* returning or by raising, no browser process is running.
C24_BrowserReleased ==
    (call.fn = "scrape_website" /\ call.at = "idle") => call.running = 0


(***************************************************************************)
(* MedicalAnalysisAgent.analyze_table_data, lines 1192-1386.               *)
(* The coercion loop, lines 1216-1223, on one column of dtype object: a    *)
(* column is [kind, values], kind "text" when its cells are strings and    *)
(* "objects" when they are not (the .str accessor then raises).            *)
(***************************************************************************)

\* What pd.to_numeric parses, over the modelled cells: digits with at most
\* one ".", at least one digit.
is_numeric_text(s) ==
    /\ \E i \in 1..Len(s) : IsDigit(CharAt(s, i))
    /\ \A i \in 1..Len(s) : IsDigit(CharAt(s, i)) \/ CharAt(s, i) = "."
    /\ \A i, j \in 1..Len(s) : (CharAt(s, i) = "." /\ CharAt(s, j) = ".") => i = j

\* Line 1220: .str.replace(',', '').str.replace('%', '') on every cell.
str_replace_all(values) ==
    [ i \in DOMAIN values |-> remove_char(remove_char(values[i], ","), "%") ]

\* Line 1221: pd.to_numeric(errors='ignore') gives the numbers when every
\* cell parses and gives back the series it was handed otherwise.
to_numeric_ignore(values) ==
    IF \A i \in DOMAIN values : is_numeric_text(values[i])
    THEN [kind |-> "number", values |-> [ i \in DOMAIN values |-> float_of(values[i]) ]]
    ELSE [kind |-> "text", values |-> values]

\* Lines 1217-1223 for one column: the column after the loop body.  Line 1220
\* assigns the stripped cells to df[col] before line 1221 tries the numbers.
coerce_column(column) ==
    IF column.kind # "text" THEN column                     \* .str raises; except: pass
    ELSE to_numeric_ignore(str_replace_all(column.values))

MaxCells == 3

CoerceCells == << "1,000", "12%", "7.5", "n/a", "50% off", "Lyon, France" >>

RECURSIVE CellSeqs(_)
CellSeqs(n) ==
    IF n = 0 THEN { << >> }
    ELSE CellSeqs(n - 1)
         \cup { Append(s, CoerceCells[k]) :
                  s \in { q \in CellSeqs(n - 1) : Len(q) = n - 1 },
                  k \in DOMAIN CoerceCells }

CoerceColumns ==
    { [kind |-> "text", values |-> v] : v \in CellSeqs(MaxCells) \ { << >> } }
    \cup { [kind |-> "objects", values |-> << "[1, 2]", "[3]" >>] }

CoerceInit ==
    /\ agent = ConstructedAgent
    /\ country = "France"
    /\ RunInit
    /\ \E column \in CoerceColumns :
          call = [fn |-> "coerce_column", column |-> column, ret |-> << >>]

\* Lines 1217-1223: the loop body has run on the column.
CoerceColumn ==
    /\ call.fn = "coerce_column"
    /\ call.ret = << >>
    /\ call' = [call EXCEPT !.ret = << coerce_column(call.column) >>]
    /\ UNCHANGED run_vars

CoerceNext == CoerceColumn

CoerceSpec == CoerceInit /\ [][CoerceNext]_vars

\* A cell that is a number once its commas and percent signs are dropped.
ParsesAsNumber(cell) == is_numeric_text(remove_char(remove_char(cell, ","), "%"))

\* C25: a text column that cannot be parsed as numbers has after the
\* coercion step the values it had before, commas and percent signs included.
C25_FailedCoercionLeavesColumn ==
    (/\ Returned("coerce_column")
     /\ \E i \in DOMAIN call.column.values : ~ParsesAsNumber(call.column.values[i])) =>
        /\ call.ret[1].kind = call.column.kind
        /\ call.ret[1].values = call.column.values


(***************************************************************************)
(* analyze_table_data as a run through its four analyses, lines 1225-1386. *)
(* The DataFrame is kept by what the guards read: the number of numeric    *)
(* columns, whether it has text columns, whether it has a column of dates, *)
(* its number of rows, and whether a pair of columns correlates.  A        *)
(* statement that raises does so before the block has appended anything.   *)
(***************************************************************************)

AnalysisTypes == { "descriptive", "trend", "correlation", "pattern" }

DataFrames ==
    [ numeric_cols : {0, 1, 2}, categorical : BOOLEAN, dated : BOOLEAN,
      rows : {0, 3, 5}, correlated : BOOLEAN ]

AnalyzeInit ==
    /\ agent = ConstructedAgent
    /\ country = "France"
    /\ RunInit
    /\ \E df \in DataFrames, analysis_type \in AnalysisTypes :
          call = [fn |-> "analyze_table_data", df |-> df, analysis_type |-> analysis_type,
                  at |-> "descriptive", raised_in |-> {},
                  tables |-> << >>, insights |-> << >>]

\* The block at `stage` ended normally with these tables and insights added.
Analysed(stage, next, tables, insights) ==
    call' = [call EXCEPT !.at = next,
                         !.tables = @ \o tables, !.insights = @ \o insights]

\* An exception in a block inside try/except: pass: the block adds nothing.
Swallowed(stage, next) ==
    call' = [call EXCEPT !.at = next, !.raised_in = @ \cup {stage}]

\* An exception in a statement outside every try: it leaves analyze_table_data.
Propagated(stage) ==
    call' = [call EXCEPT !.at = "raised", !.raised_in = @ \cup {stage}]

\* Lines 1225-1270.  describe(), skew(), kurtosis() and the append of lines
\* 1230-1240 are outside any try; only the per-column insights of lines
\* 1245-1267 are inside one.
DescriptiveStatistics ==
    /\ call.fn = "analyze_table_data"
    /\ call.at = "descriptive"
    /\ IF call.df.numeric_cols = 0                                   \* line 1229
       THEN Analysed("descriptive", "frequency", << >>, << >>)
       ELSE \/ Propagated("descriptive")
            \/ Analysed("descriptive", "frequency",
                        << "Numeric Column Statistics" >>,
                        IF call.df.rows > 0 THEN << "average value" >> ELSE << >>)
            \/ Analysed("descriptive", "frequency",
                        << "Numeric Column Statistics" >>, << >>)    \* lines 1266-1267
    /\ UNCHANGED run_vars

\* Lines 1272-1294: each column in its own try/except.
FrequencyAnalysis ==
    /\ call.fn = "analyze_table_data"
    /\ call.at = "frequency"
    /\ IF ~(call.df.categorical /\ call.df.rows > 0)                 \* line 1273
       THEN Analysed("frequency", "trend", << >>, << >>)
       ELSE \/ Swallowed("frequency", "trend")
            \/ Analysed("frequency", "trend",
                        << "Frequency Distribution" >>, << "most common value" >>)
    /\ UNCHANGED run_vars

\* Line 1302 turns every object column into datetimes (errors='coerce'), so
\* every text column counts as a date column at line 1305.
date_cols(df) == df.dated \/ df.categorical

\* Lines 1296-1329: each pair of columns in its own try/except.
TrendAnalysis ==
    /\ call.fn = "analyze_table_data"
    /\ call.at = "trend"
    /\ IF ~(/\ date_cols(call.df) /\ call.df.numeric_cols > 0
            /\ call.analysis_type \in {"trend", "descriptive"})       \* line 1308
       THEN Analysed("trend", "correlation", << >>, << >>)
       ELSE \/ Swallowed("trend", "correlation")
            \/ Analysed("trend", "correlation", << >>,
                        IF call.df.dated /\ call.df.rows >= 3         \* line 1315
                        THEN << "trend over time" >> ELSE << >>)
    /\ UNCHANGED run_vars

\* Lines 1331-1368: one try/except around the block.
CorrelationAnalysis ==
    /\ call.fn = "analyze_table_data"
    /\ call.at = "correlation"
    /\ IF ~(/\ call.df.numeric_cols >= 2 /\ call.df.rows >= 5
            /\ call.analysis_type \in {"correlation", "descriptive"}) \* line 1332
       THEN Analysed("correlation", "summary", << >>, << >>)
       ELSE \/ Swallowed("correlation", "summary")
            \/ Analysed("correlation", "summary",
                        IF call.df.correlated
                        THEN << "Strongest Variable Correlations" >> ELSE << >>,
                        IF call.df.correlated THEN << "correlation" >> ELSE << >>)
    /\ UNCHANGED run_vars

\* Lines 1370-1384: the summary is built and the record returned.
ReturnResults ==
    /\ call.fn = "analyze_table_data"
    /\ call.at = "summary"
    /\ call' = [call EXCEPT !.at = "returned"]
    /\ UNCHANGED run_vars

AnalyzeNext ==
    \/ DescriptiveStatistics
    \/ FrequencyAnalysis
    \/ TrendAnalysis
    \/ CorrelationAnalysis
    \/ ReturnResults

AnalyzeSpec == AnalyzeInit /\ [][AnalyzeNext]_vars

\* C26: an exception inside one analysis never leaves analyze_table_data, and
\* the analyses after it still run: the call goes on to return its record.
C26_AnalysesIndependent ==
    call.fn = "analyze_table_data" =>
        /\ call.at # "raised"
        /\ (call.at = "returned" /\ "frequency" \notin call.raised_in
            /\ call.df.categorical /\ call.df.rows > 0) =>
              \E k \in DOMAIN call.tables : call.tables[k] = "Frequency Distribution"
        /\ (call.at = "returned" /\ "correlation" \notin call.raised_in
            /\ call.df.numeric_cols >= 2 /\ call.df.rows >= 5 /\ call.df.correlated
            /\ call.analysis_type \in {"correlation", "descriptive"}) =>
              \E k \in DOMAIN call.tables : call.tables[k] = "Strongest Variable Correlations"


(***************************************************************************)
(* The trend of one date column and one numeric column, lines 1312-1327.   *)
(* A row is [date, value]: the date a day number, the value << v >> or     *)
(* << >> for a missing value.                                              *)
(***************************************************************************)

\* .dropna(), line 1314.
RECURSIVE dropna(_)
dropna(rows) ==
    IF Len(rows) = 0 THEN << >>
    ELSE (IF Head(rows).value = << >> THEN << >> ELSE << Head(rows) >>)
         \o dropna(Tail(rows))

\* .sort_values(date_col), line 1314, for rows of distinct dates.
RECURSIVE sort_by_date(_)
sort_by_date(rows) ==
    IF Len(rows) = 0 THEN << >>
    ELSE LET k == CHOOSE i \in DOMAIN rows : \A j \in DOMAIN rows : rows[i].date <= rows[j].date
         IN  << rows[k] >>
             \o sort_by_date([ i \in 1..(Len(rows) - 1) |->
                                 IF i < k THEN rows[i] ELSE rows[i + 1] ])

\* Line 1319: the percent change as the exact fraction num / den; 0 when the
\* first value is 0.
pct_change(first_val, last_val) ==
    IF first_val # 0 THEN [num |-> (last_val - first_val) * 100, den |-> first_val]
    ELSE [num |-> 0, den |-> 1]

\* num / den > bound and num / den < bound for a fraction with den # 0.
fraction_above(f, bound) ==
    IF f.den > 0 THEN f.num > bound * f.den ELSE f.num < bound * f.den

fraction_below(f, bound) ==
    IF f.den > 0 THEN f.num < bound * f.den ELSE f.num > bound * f.den

\* Line 1322.
trend_label(change) ==
    IF fraction_above(change, 5) THEN "increasing"
    ELSE IF fraction_below(change, -5) THEN "decreasing"
    ELSE "stable"

\* Lines 1315-1327 on the sorted rows: the insight, if any.
trend_of_sorted(trend_df) ==
    IF Len(trend_df) >= 3
    THEN << trend_label(pct_change(trend_df[1].value[1],
                                   trend_df[Len(trend_df)].value[1])) >>
    ELSE << >>

\* Lines 1314-1327.
trend_insight(rows) == trend_of_sorted(sort_by_date(dropna(rows)))

MaxRows == 3

TrendValues == { << >>, << -100 >>, << -50 >>, << 0 >>, << 100 >>, << 106 >> }

\* The tables of at most n rows, each row on a day of its own.
TrendTables(n) ==
    UNION { { [ i \in 1..m |-> [date |-> days[i], value |-> values[i]] ] :
                days \in { d \in [1..m -> 1..m] : \A i, j \in 1..m : d[i] = d[j] => i = j },
                values \in [1..m -> TrendValues] } : m \in 2..n }

TrendInit ==
    /\ agent = ConstructedAgent
    /\ country = "France"
    /\ RunInit
    /\ \E rows \in TrendTables(MaxRows) :
          call = [fn |-> "trend_insight", rows |-> rows, ret |-> << >>]

\* Lines 1312-1329 for one pair of columns.
TrendInsight ==
    /\ call.fn = "trend_insight"
    /\ call.ret = << >>
    /\ call' = [call EXCEPT !.ret = << trend_insight(call.rows) >>]
    /\ UNCHANGED run_vars

TrendNext == TrendInsight

TrendSpec == TrendInit /\ [][TrendNext]_vars

\* The dated rows that have a value.
DatedRows(rows) == { i \in DOMAIN rows : rows[i].value # << >> }

\* The value of the chronologically first and last such row.
FirstValue(rows) ==
    rows[CHOOSE i \in DatedRows(rows) :
            \A j \in DatedRows(rows) : rows[i].date <= rows[j].date].value[1]

LastValue(rows) ==
    rows[CHOOSE i \in DatedRows(rows) :
            \A j \in DatedRows(rows) : rows[i].date >= rows[j].date].value[1]

Magnitude(x) == IF x < 0 THEN -x ELSE x

\* The label C27 states: by how far the last value lies above or below the
\* first, against 5% of the first value's size.
LabelAsStated(first_val, last_val) ==
    IF (last_val - first_val) * 100 > 5 * Magnitude(first_val) THEN "increasing"
    ELSE IF (first_val - last_val) * 100 > 5 * Magnitude(first_val) THEN "decreasing"
    ELSE "stable"

\* C27: a series of at least 3 dated rows is labelled increasing when its last
\* value is more than 5% above its first, decreasing when more than 5% below,
\* stable otherwise, also for a first value that is zero or negative; fewer
\* than 3 rows give no trend insight.
C27_TrendLabel ==
    Returned("trend_insight") =>
        IF Cardinality(DatedRows(call.rows)) >= 3
        THEN call.ret[1] = << LabelAsStated(FirstValue(call.rows), LastValue(call.rows)) >>
        ELSE call.ret[1] = << >>


(***************************************************************************)
(* Correlation reporting, lines 1334-1366.  A coefficient is << r >> with  *)
(* r in thousandths, or << >> for NaN; the rounded matrix of line 1334     *)
(* holds hundredths.  `coefficients` lists the pairs (i, j), i < j, in the *)
(* order of the loops of lines 1338-1339.                                  *)
(***************************************************************************)

\* .round(2), line 1334: to hundredths, halves to the even neighbour.
round_half_even(n) ==
    LET q == n \div 10
        r == n % 10
    IN  IF r < 5 THEN q
        ELSE IF r > 5 THEN q + 1
        ELSE IF q % 2 = 0 THEN q ELSE q + 1

round2(coefficient) ==
    IF coefficient = << >> THEN << >> ELSE << round_half_even(coefficient[1]) >>

\* abs, lines 1342 and 1346.
abs(x) == IF x < 0 THEN -x ELSE x

\* The pairs (i, j), i < j, of n columns in loop order, lines 1338-1340.
RECURSIVE pairs_from(_, _, _)
pairs_from(i, j, n) ==
    IF i >= n THEN << >>
    ELSE IF j > n THEN pairs_from(i + 1, i + 2, n)
    ELSE << << i, j >> >> \o pairs_from(i, j + 1, n)

column_pairs(n) == pairs_from(1, 2, n)

\* Lines 1341-1343: the pairs kept, with their rounded coefficient.
RECURSIVE strong_correlations(_, _)
strong_correlations(pairs, corr_matrix) ==
    IF Len(pairs) = 0 THEN << >>
    ELSE (IF corr_matrix[1] # << >> /\ abs(corr_matrix[1][1]) >= 50
          THEN << [col1 |-> pairs[1][1], col2 |-> pairs[1][2],
                   corr_val |-> corr_matrix[1][1]] >>
          ELSE << >>)
         \o strong_correlations(Tail(pairs), Tail(corr_matrix))

\* Line 1346: list.sort(key=abs of the coefficient, reverse=True); the sort
\* is stable and reverse keeps the order of equal keys.
RECURSIVE sort_by_strength(_)
sort_by_strength(correlations) ==
    IF Len(correlations) = 0 THEN << >>
    ELSE LET k == CHOOSE i \in DOMAIN correlations :
                    /\ \A j \in DOMAIN correlations :
                          abs(correlations[i].corr_val) >= abs(correlations[j].corr_val)
                    /\ \A j \in 1..(i - 1) :
                          abs(correlations[j].corr_val) < abs(correlations[i].corr_val)
         IN  << correlations[k] >>
             \o sort_by_strength([ i \in 1..(Len(correlations) - 1) |->
                                     IF i < k THEN correlations[i] ELSE correlations[i + 1] ])

\* Lines 1350-1353 with the strong thresholds exclusive.
relationship_above(corr_val) ==
    IF corr_val > 70 THEN "strong positive"
    ELSE IF corr_val >= 50 THEN "moderate positive"
    ELSE IF corr_val < -70 THEN "strong negative"
    ELSE "moderate negative"

\* Lines 1350-1353.
relationship(corr_val) ==
    IF corr_val >= 70 THEN "strong positive"
    ELSE IF corr_val >= 50 THEN "moderate positive"
    ELSE IF corr_val <= -70 THEN "strong negative"
    ELSE "moderate negative"

\* Lines 1349-1357: the insights of the top 3.
narrated(correlations) ==
    [ i \in 1..(IF Len(correlations) < 3 THEN Len(correlations) ELSE 3) |->
        [col1 |-> correlations[i].col1, col2 |-> correlations[i].col2,
         corr_val |-> correlations[i].corr_val,
         relationship |-> relationship(correlations[i].corr_val)] ]

correlation_results(correlations) ==
    [insights |-> narrated(correlations), table |-> correlations]

\* Lines 1334-1366 for n numeric columns with the given pairwise coefficients.
correlation_report(n, coefficients) ==
    correlation_results(
        sort_by_strength(
            strong_correlations(column_pairs(n),
                                [ i \in DOMAIN coefficients |-> round2(coefficients[i]) ])))

MaxColumns == 4

\* The coefficients tried for a pair: all of them for few columns, two of
\* equal strength for many.
CoefficientsFor(n) ==
    IF n = 2 THEN { << >>, << 0 >>, << 300 >>, << 494 >>, << 496 >>, << 500 >>, << 600 >>,
                    << 695 >>, << 700 >>, << 1000 >>, << -496 >>, << -500 >>,
                    << -695 >>, << -700 >>, << -1000 >> }
    ELSE IF n = 3 THEN { << >>, << 300 >>, << 600 >>, << -600 >>, << 700 >>, << -900 >> }
    ELSE { << 600 >>, << -600 >>, << 900 >> }

CorrelationInit ==
    /\ agent = ConstructedAgent
    /\ country = "France"
    /\ RunInit
    /\ \E n \in 2..MaxColumns :
          \E coefficients \in [1..((n * (n - 1)) \div 2) -> CoefficientsFor(n)] :
             call = [fn |-> "correlation_report", n |-> n, coefficients |-> coefficients,
                     ret |-> << >>]

\* Lines 1331-1368: the block has run.
CorrelationReport ==
    /\ call.fn = "correlation_report"
    /\ call.ret = << >>
    /\ call' = [call EXCEPT !.ret = << correlation_report(call.n, call.coefficients) >>]
    /\ UNCHANGED run_vars

CorrelationNext == CorrelationReport

CorrelationSpec == CorrelationInit /\ [][CorrelationNext]_vars

\* The place of the pair (i, j), i < j, of n columns in loop order.
PairPlace(i, j, n) == ((i - 1) * (2 * n - i)) \div 2 + (j - i)

\* The label C28 states for a coefficient r given in units of 1/unit.
RelationshipAsStated(r, unit) ==
    IF 10 * r >= 7 * unit THEN "strong positive"
    ELSE IF 10 * r >= 5 * unit THEN "moderate positive"
    ELSE IF 10 * r <= -7 * unit THEN "strong negative"
    ELSE "moderate negative"

\* What C28 states of a report, C being the coefficients in units of 1/unit.
ReportAsStated(report, n, C, unit) ==
    /\ \A i, j \in 1..n :
          i < j =>
             ((\E k \in DOMAIN report.table :
                  report.table[k].col1 = i /\ report.table[k].col2 = j)
              <=> (/\ C[PairPlace(i, j, n)] # << >>
                   /\ 10 * Magnitude(C[PairPlace(i, j, n)][1]) >= 5 * unit))
    /\ \A k, m \in DOMAIN report.table :
          k < m => Magnitude(report.table[k].corr_val) >= Magnitude(report.table[m].corr_val)
    /\ Len(report.insights) = (IF Len(report.table) < 3 THEN Len(report.table) ELSE 3)
    /\ \A k \in DOMAIN report.insights :
          /\ report.insights[k].col1 = report.table[k].col1
          /\ report.insights[k].col2 = report.table[k].col2
          /\ report.insights[k].relationship =
                RelationshipAsStated(
                    C[PairPlace(report.table[k].col1, report.table[k].col2, n)][1], unit)

\* C28: with r the coefficient rounded to two decimals, the pairs reported are
\* those with |r| >= 0.5, sorted by |r| descending; the top 3 are narrated,
\* each labelled strong for |r| >= 0.7 and moderate below, positive or
\* negative by the sign of r.
C28_CorrelationReport ==
    Returned("correlation_report") =>
        ReportAsStated(call.ret[1], call.n,
                       [ i \in DOMAIN call.coefficients |-> round2(call.coefficients[i]) ],
                       100)

\* Two columns in perfect positive linear relation are narrated as strong
\* positive.
C28_Witness ==
    /\ Returned("correlation_report")
    /\ call.n = 2
    /\ call.coefficients = << << 1000 >> >>
    /\ Len(call.ret[1].insights) = 1
    /\ call.ret[1].insights[1].relationship = "strong positive"

\* Six pairs were reported and three of them narrated.
C28_TopThree ==
    /\ Returned("correlation_report")
    /\ Len(call.ret[1].table) = 6
    /\ Len(call.ret[1].insights) = 3

\* C28 as stated, r being the coefficient itself.
C28_AsStated ==
    Returned("correlation_report") =>
        ReportAsStated(call.ret[1], call.n, call.coefficients, 1000)


(***************************************************************************)
(* MedicalDataCleaningAgent.clean_medical_data, lines 1128-1162, on tables *)
(* whose rows are [country, indicator, timestamp]: no list column, so the  *)
(* loops of lines 1134-1138 and 1146-1148 do nothing.                      *)
(***************************************************************************)

UpperOf ==
    [ c \in { CharAt(LowerLetters, i) : i \in 1..Len(LowerLetters) } |->
        CharAt(UpperLetters, CHOOSE i \in 1..Len(LowerLetters) : CharAt(LowerLetters, i) = c) ]

upper_char(c) == IF c \in DOMAIN UpperOf THEN UpperOf[c] ELSE c

IsLetter(c) == c \in DOMAIN UpperOf \/ c \in DOMAIN LowerOf

\* str.title(): a letter that follows no letter is made uppercase, every
\* other letter lowercase.
RECURSIVE title_from(_, _)
title_from(s, after_letter) ==
    IF Len(s) = 0 THEN ""
    ELSE (IF after_letter THEN lower_char(Head(s)) ELSE upper_char(Head(s)))
         \o title_from(Tail(s), IsLetter(Head(s)))

title(s) == title_from(s, FALSE)

\* drop_duplicates(subset=all columns), line 1143: the first of equal rows
\* is kept.
RECURSIVE drop_duplicates(_)
drop_duplicates(rows) ==
    IF Len(rows) = 0 THEN << >>
    ELSE LET kept == drop_duplicates(SubSeq(rows, 1, Len(rows) - 1))
         IN  IF \E i \in 1..(Len(rows) - 1) : rows[i] = rows[Len(rows)]
             THEN kept ELSE Append(kept, rows[Len(rows)])

\* Lines 1151-1157 on one row.
standardize(row) ==
    [row EXCEPT !.country = title(@), !.indicator = strip(@)]

standardize_rows(rows) == [ i \in DOMAIN rows |-> standardize(rows[i]) ]

\* Lines 1131-1159, the success path: duplicates are dropped at line 1143,
\* the names are standardized after that, at lines 1151 and 1154.
clean_medical_data(df) == standardize_rows(drop_duplicates(df))

MaxTableRows == 3

CleanRows ==
    { [country |-> c, indicator |-> n, timestamp |-> "2024-01-01"] :
        c \in { "france", "France", "new zealand" },
        n \in { "population", " population " } }

RECURSIVE CleanTables(_)
CleanTables(n) ==
    IF n = 0 THEN { << >> }
    ELSE CleanTables(n - 1)
         \cup { Append(t, r) : t \in { q \in CleanTables(n - 1) : Len(q) = n - 1 },
                               r \in CleanRows }

CleanInit ==
    /\ agent = ConstructedAgent
    /\ country = "France"
    /\ RunInit
    /\ \E df \in CleanTables(MaxTableRows) :
          call = [fn |-> "clean_medical_data", df |-> df, runs |-> << >>]

\* Lines 1128-1159: the table is cleaned, then the cleaned table is.
CleanMedicalData ==
    /\ call.fn = "clean_medical_data"
    /\ Len(call.runs) < 2
    /\ call' = [call EXCEPT !.runs =
                   Append(@, clean_medical_data(IF Len(call.runs) = 0 THEN call.df
                                                ELSE call.runs[Len(call.runs)]))]
    /\ UNCHANGED run_vars

CleanNext == CleanMedicalData

CleanSpec == CleanInit /\ [][CleanNext]_vars

\* C29: the cleaned table has no two rows equal in every column, and cleaning
\* the cleaned table gives it back unchanged.
C29_NoDuplicateRows ==
    call.fn = "clean_medical_data" =>
        /\ Len(call.runs) >= 1 =>
              \A i, j \in DOMAIN call.runs[1] :
                 call.runs[1][i] = call.runs[1][j] => i = j
        /\ Len(call.runs) = 2 => call.runs[2] = call.runs[1]


(***************************************************************************)
(* The chat page, lines 2081-2141, with health data loaded.  Streamlit     *)
(* runs the page script from the top on every interaction; the text input  *)
(* keyed "chat_input" keeps its value from one run to the next.  `call`    *)
(* holds the session's chat_history, the value of the text input, the      *)
(* questions submitted since the last clear and the interactions so far.   *)
(***************************************************************************)

MaxInteractions == 4

Questions == { "q1", "q2" }

\* What the chat agent does with a question: it answers, or it raises and the
\* fallback text of lines 2112-2121 is used.
Replies == { "response", "fallback" }

\* Lines 2089-2122 in one run of the script: with a non-empty input the agent
\* is asked and one entry appended, the agent's answer or the fallback.
chat_turn(chat_history, user_input, reply) ==
    IF user_input # ""                                               \* line 2089
    THEN Append(chat_history, [user |-> user_input, assistant |-> reply])
    ELSE chat_history

ChatInit ==
    /\ agent = ConstructedAgent
    /\ country = "France"
    /\ RunInit
    /\ call = [fn |-> "chat_page", chat_history |-> << >>, chat_input |-> "",
               submitted |-> << >>, interactions |-> 0, last |-> "load"]

\* The user types a question and presses Enter: the script runs with it.
SubmitQuestion ==
    /\ call.fn = "chat_page"
    /\ call.interactions < MaxInteractions
    /\ \E question \in Questions, reply \in Replies :
          call' = [call EXCEPT
                     !.chat_input = question,
                     !.chat_history = chat_turn(@, question, reply),
                     !.submitted = Append(@, question),
                     !.interactions = @ + 1,
                     !.last = "submit"]
    /\ UNCHANGED run_vars

\* The user empties the text input: the script runs with an empty input.
EmptyInput ==
    /\ call.fn = "chat_page"
    /\ call.interactions < MaxInteractions
    /\ call.chat_input # ""
    /\ call' = [call EXCEPT
                  !.chat_input = "",
                  !.chat_history = chat_turn(@, "", "response"),
                  !.interactions = @ + 1,
                  !.last = "empty"]
    /\ UNCHANGED run_vars

\* Any other interaction re-renders the page: the script runs again with the
\* text input as it is.
Rerender ==
    /\ call.fn = "chat_page"
    /\ call.interactions < MaxInteractions
    /\ \E reply \in Replies :
          call' = [call EXCEPT
                     !.chat_history = chat_turn(@, call.chat_input, reply),
                     !.interactions = @ + 1,
                     !.last = "rerender"]
    /\ UNCHANGED run_vars

\* A click on 'Clear Chat History', shown when the history is not empty
\* (line 2127): the script runs with the button pressed, lines 2089-2122
\* first, then lines 2139-2141 empty the history and rerun the script, which
\* runs lines 2089-2122 once more.
ClearChatHistory ==
    /\ call.fn = "chat_page"
    /\ call.interactions < MaxInteractions
    /\ Len(call.chat_history) > 0
    /\ \E reply \in Replies :
          call' = [call EXCEPT
                     !.chat_history = chat_turn(<< >>, call.chat_input, reply),
                     !.submitted = << >>,
                     !.interactions = @ + 1,
                     !.last = "clear"]
    /\ UNCHANGED run_vars

ChatNext ==
    \/ SubmitQuestion
    \/ EmptyInput
    \/ Rerender
    \/ ClearChatHistory

ChatSpec == ChatInit /\ [][ChatNext]_vars

\* C30: the chat history holds one entry per question submitted since the
\* last clear, in order, and is empty once the page has re-rendered after a
\* click on 'Clear Chat History'.
C30_OneEntryPerQuestion ==
    call.fn = "chat_page" =>
        /\ Len(call.chat_history) = Len(call.submitted)
        /\ \A i \in DOMAIN call.chat_history :
              call.chat_history[i].user = call.submitted[i]
        /\ call.last = "clear" => call.chat_history = << >>

====
